---- MODULE Spec2Model ----
(***************************************************************************)
(* Model of the IDX market-data server: the data-source coordinator with   *)
(* its adapters (DataSource / DataSourceManager), and the historical data  *)
(* service (getStockData / getMultipleStocksData with its durable cache).  *)
(***************************************************************************)
EXTENDS Integers, Sequences, FiniteSets, TLC

VARIABLES
    sources,      \* DataSourceManager.sources: adapters in the order they are tried
    stats,        \* DataSource.stats of each adapter
    calls,        \* the coordinator invocations (tryDataSources) of a run
    late,         \* losers of a settled Promise.race that are still to complete
    wrappedDone,  \* history: how many makeRequest calls have resolved, per adapter
    nested,       \* how many nested getStockInfo requests yahoo operations have made
    mTickers,     \* getMultipleStocksData: the tickers argument
    mPc,          \* getMultipleStocksData: "idle", "running", "done" or "rejected"
    mChunk,       \* getMultipleStocksData: index of the chunk being processed
    fetch,        \* getMultipleStocksData: state of the getStockData call per ticker
    mResults,     \* getMultipleStocksData: the keys of the results object
    store,        \* the durable per-ticker records (data file and metadata file)
    now,          \* the clock (Date.now()), in abstract time units
    gets,         \* the getStockData invocations of a run
    cache,        \* MemoryCache.cache: the entries the NodeCache instance holds
    hits,         \* MemoryCache.hits
    misses,       \* MemoryCache.misses
    gotten,       \* history: how many get calls have been made
    lastSet,      \* history: the latest set of each key not yet deleted or cleared
    cLast,        \* the latest cache operation and what it returned
    fnArg,        \* the argument a pure function of the program is applied to
    fnRes         \* what it returned or threw ("none": not yet applied)

coordVars == <<sources, stats, calls, late, wrappedDone, nested>>
multiVars == <<mTickers, mPc, mChunk, fetch, mResults>>
seriesVars == <<store, now, gets>>

cacheVars == <<cache, hits, misses, gotten, lastSet, cLast>>
pureVars == <<fnArg, fnRes>>

vars == <<coordVars, multiVars, seriesVars, cacheVars, pureVars>>

\* the state outside the coordinator, outside getMultipleStocksData and
\* outside getStockData
NotCoord == <<multiVars, seriesVars, cacheVars, pureVars>>
NotCache == <<coordVars, multiVars, store, gets, pureVars>>
NotMulti == <<coordVars, seriesVars, cacheVars, pureVars>>
NotSeries == <<coordVars, multiVars, cacheVars, pureVars>>
NotPure == <<coordVars, multiVars, seriesVars, cacheVars>>

----------------------------------------------------------------------------
(* Bounds of the exploration *)

\* coordinator invocations started in one run (they may overlap)
MaxCalls == 1
\* losers of settled races that may be outstanding at one time
MaxLate == 1
\* nested getStockInfo requests issued by yahoo's composite operations
MaxNested == 1
\* longest tickers argument of getMultipleStocksData
MaxSymbols == 7
\* getStockData invocations in progress at the same time
MaxGets == 1
\* last reading of the clock
MaxTime == 2
\* getStockData invocations in progress at the same time when the persisting
\* of records is explored
MaxWriters == 2
\* get calls made on the cache layer in one run
MaxCacheGets == 3

----------------------------------------------------------------------------
(* Program constants *)

LOW == 1
MEDIUM == 2
HIGH == 3
\* Math.max(totalRequests, 10) in updateStats
HealthWindow == 10
\* const concurrencyLimit = 5 in getMultipleStocksData
ConcurrencyLimit == 5
\* this.cache.set(key, value, ttl || 300) in MemoryCache.set
DefaultTtl == 300

Max(x, y) == IF x >= y THEN x ELSE y

Adapters == {"github", "yahoo", "web"}

Caps == {"stockInfo", "marketOverview", "historicalSeries",
         "sectorPerformance", "search"}

\* super(name, priority, timeout) of the three adapters, and of adapters
\* a caller of addSource may bring along
Priority(a) ==
    CASE a = "github" -> HIGH
      [] a = "yahoo"  -> HIGH
      [] a = "web"    -> MEDIUM
      [] a = "mirror" -> MEDIUM
      [] a = "backup" -> LOW
      [] a = "archive" -> LOW

----------------------------------------------------------------------------
(* Results: the absence marker (null), a value, or a list (search) *)

Null == [kind |-> "null", src |-> "none", n |-> 0]
Val(a) == [kind |-> "value", src |-> a, n |-> 1]
List(a, k) == [kind |-> "list", src |-> a, n |-> k]

\* a slip: the empty array is taken for falsy, like null
Truthy_EmptyIsFalsy(r) == r.kind # "null" /\ ~(r.kind = "list" /\ r.n = 0)

\* JavaScript truthiness of a result: null is falsy, objects and arrays
\* (also the empty array) are truthy
Truthy(r) == r.kind # "null"

----------------------------------------------------------------------------
(* DataSource: statistics and the request wrapper *)

\* the stats object the constructor builds
NewStats ==
    [successCount |-> 0, errorCount |-> 0, isHealthy |-> TRUE,
     lastRequest |-> FALSE]

\* a plausible slip: health derived from the counters before the increment
UpdateStats_StaleHealth(st, success) ==
    [st EXCEPT
        !.successCount = IF success THEN @ + 1 ELSE @,
        !.errorCount = IF success THEN @ ELSE @ + 1,
        !.isHealthy = (st.errorCount * 2 <=
                         Max(st.successCount + st.errorCount, HealthWindow))]

\* updateStats: errorCount / max(total, 10) <= 0.5 over integers is
\* 2 * errorCount <= max(total, 10)
UpdateStats(st, success) ==
    LET s == IF success THEN st.successCount + 1 ELSE st.successCount
        e == IF success THEN st.errorCount ELSE st.errorCount + 1
        totalRequests == s + e
    IN  [st EXCEPT
            !.successCount = s,
            !.errorCount = e,
            !.isHealthy = (e * 2 <= Max(totalRequests, HealthWindow))]

\* what the operation passed to makeRequest yields when it completes in time
OpResult(a, cap, outcome) ==
    CASE outcome = "value" ->
            IF cap = "search" THEN List(a, 1) ELSE Val(a)
      [] outcome = "empty" -> List(a, 0)
      [] OTHER -> Null

\* a plausible slip: the catch branch rethrows instead of returning null
MakeRequest_Rethrow(st, a, cap, outcome) ==
    IF outcome \in {"throw", "timeout"}
    THEN [stats |-> st, ret |-> Null, raised |-> TRUE]
    ELSE [stats |-> [UpdateStats(st, TRUE) EXCEPT !.lastRequest = TRUE],
          ret |-> OpResult(a, cap, outcome), raised |-> FALSE]

\* a plausible slip: a failure is not counted
MakeRequest_NoCount(st, a, cap, outcome) ==
    IF outcome \in {"throw", "timeout"}
    THEN [stats |-> st, ret |-> Null, raised |-> FALSE]
    ELSE [stats |-> [UpdateStats(st, TRUE) EXCEPT !.lastRequest = TRUE],
          ret |-> OpResult(a, cap, outcome), raised |-> FALSE]

\* a slip: an operation that resolves with null or the empty list is
\* counted as a failure
MakeRequest_AbsenceFails(st, a, cap, outcome) ==
    LET success == outcome \notin {"throw", "timeout", "null", "empty"}
    IN  [stats |-> [UpdateStats(st, success) EXCEPT !.lastRequest = TRUE],
         ret |-> IF outcome \in {"throw", "timeout"} THEN Null
                 ELSE OpResult(a, cap, outcome),
         raised |-> FALSE]

\* makeRequest: the race of the operation against the timer, inside try/catch.
\* outcome "throw": the operation rejects first; "timeout": the timer rejects
\* first; anything else: the operation resolves first.
MakeRequest(st, a, cap, outcome) ==
    IF outcome \in {"throw", "timeout"}
    THEN [stats |-> [UpdateStats(st, FALSE) EXCEPT !.lastRequest = TRUE],
          ret |-> Null, raised |-> FALSE]
    ELSE [stats |-> [UpdateStats(st, TRUE) EXCEPT !.lastRequest = TRUE],
          ret |-> OpResult(a, cap, outcome), raised |-> FALSE]

----------------------------------------------------------------------------
(* The three adapters *)

\* a slip that would route every capability through makeRequest
Wrapped_All(a, cap) == TRUE

\* does the adapter's capability go through makeRequest?  The dataset adapter
\* returns null directly for stockInfo, marketOverview and sectorPerformance.
Wrapped(a, cap) ==
    ~(a = "github" /\ cap \in {"stockInfo", "marketOverview", "sectorPerformance"})

\* what the operation of each adapter and capability can do:
\* "value" a result, "empty" an empty list, "null", "throw", or "hang" (it
\* does not complete before the adapter's timer)
OpOutcomes(a, cap) ==
    CASE a = "github" /\ cap = "historicalSeries" -> {"value", "null", "throw", "hang"}
      [] a = "github" /\ cap = "search" -> {"value", "empty", "throw", "hang"}
      [] a = "github" -> {"null"}
      [] a = "yahoo" /\ cap \in {"stockInfo", "marketOverview", "historicalSeries"} ->
            {"value", "throw", "hang"}
      [] a = "yahoo" /\ cap = "sectorPerformance" -> {"value", "hang"}
      [] a = "yahoo" /\ cap = "search" -> {"value", "empty", "hang"}
      [] a = "web" /\ cap = "marketOverview" -> {"value", "null", "hang"}
      [] a = "web" /\ cap = "search" -> {"empty"}
      [] OTHER -> {"null"}

\* yahoo's marketOverview, sectorPerformance and search call this.getStockInfo
\* (a wrapped request of its own) while they run
Nests(a, cap) ==
    a = "yahoo" /\ cap \in {"marketOverview", "sectorPerformance", "search"}

\* the capability method of adapter a: what it resolves to for the coordinator
Capability(st, a, cap, outcome) ==
    IF ~Wrapped(a, cap)
    THEN [stats |-> st, ret |-> Null, raised |-> FALSE]
    ELSE LET m == MakeRequest(st, a, cap, outcome)
         IN  IF cap = "search" /\ ~m.raised /\ ~Truthy(m.ret)
             THEN [m EXCEPT !.ret = List(a, 0)]    \* result || []
             ELSE m

----------------------------------------------------------------------------
(* DataSourceManager *)

RECURSIVE InsertByPriority(_, _)
\* where a stable sort by descending priority puts a new last element
InsertByPriority(seq, a) ==
    IF seq = <<>> THEN <<a>>
    ELSE IF Priority(Head(seq)) >= Priority(a)
         THEN <<Head(seq)>> \o InsertByPriority(Tail(seq), a)
         ELSE <<a>> \o seq

\* a slip: the new adapter is put in front of those of its own priority
RECURSIVE AddSource_BeforeEquals(_, _)
AddSource_BeforeEquals(seq, a) ==
    IF seq = <<>> THEN <<a>>
    ELSE IF Priority(Head(seq)) > Priority(a)
         THEN <<Head(seq)>> \o AddSource_BeforeEquals(Tail(seq), a)
         ELSE <<a>> \o seq

\* addSource: push, then sort (stable) by descending priority
AddSource(seq, a) == InsertByPriority(seq, a)

\* initializeDataSources: github, yahoo, web are registered in this order
InitializeDataSources ==
    AddSource(AddSource(AddSource(<<>>, "github"), "yahoo"), "web")

IsHealthy(st, a) == st[a].isHealthy

\* this.sources.filter(source => source.isHealthy())
HealthySources(srcs, st) == SelectSeq(srcs, LAMBDA a : IsHealthy(st, a))

\* a slip: the loop runs over every registered adapter
TrySet_All(srcs, st) == srcs

\* a slip: with no healthy adapter the call gives up at once
TrySet_NoFallback(srcs, st) == HealthySources(srcs, st)

\* the adapters tryDataSources will loop over
TrySet(srcs, st) ==
    LET healthySources == HealthySources(srcs, st)
    IN  IF Len(healthySources) = 0 THEN srcs ELSE healthySources

InvokeEv(a) == [ev |-> "invoke", a |-> a, r |-> Null, raised |-> FALSE]
ResolveEv(a, m) == [ev |-> "resolve", a |-> a, r |-> m.ret, raised |-> m.raised]

\* healthyAtStart, log and flagged are history: the adapters that were
\* healthy when tryDataSources filtered, the invocations and resolutions so
\* far, and the adapters whose isHealthy flag was false when they were invoked
IdleCall ==
    [pc |-> "idle", cap |-> "none", list |-> <<>>, idx |-> 0,
     healthyAtStart |-> {}, log |-> <<>>, flagged |-> {}, result |-> Null]

\* what the public method makes of the result of tryDataSources:
\* searchStocks returns `results || []`, the other four return it as it is
Finish(cap, r) ==
    IF cap = "search" /\ ~Truthy(r) THEN List("none", 0) ELSE r

\* tryDataSources up to its first await: the first adapter of the list is
\* called; with an empty list the loop body never runs and null is returned
Begin(cap, list, healthy) ==
    IF list = <<>>
    THEN [pc |-> "done", cap |-> cap, list |-> list, idx |-> 0,
          healthyAtStart |-> healthy, log |-> <<>>, flagged |-> {},
          result |-> Finish(cap, Null)]
    ELSE [pc |-> "await", cap |-> cap, list |-> list, idx |-> 1,
          healthyAtStart |-> healthy, log |-> <<InvokeEv(list[1])>>,
          flagged |-> {list[1]} \ healthy,
          result |-> Null]

\* a slip: a truthy result does not end the loop
Continue_NoShortCircuit(call, m) ==
    LET a == call.list[call.idx]
        logged == [call EXCEPT !.log = Append(@, ResolveEv(a, m))]
    IN  IF call.idx < Len(call.list)
        THEN [logged EXCEPT !.idx = @ + 1,
                            !.log = Append(@, InvokeEv(call.list[call.idx + 1]))]
        ELSE [logged EXCEPT !.pc = "done", !.result = Finish(call.cap, m.ret)]

\* the for loop of tryDataSources from the point where `await
\* operation(source)` settles: return a truthy result, else (falsy result or
\* caught exception) call the next adapter, else return null
Continue(call, m) ==
    LET a == call.list[call.idx]
        logged == [call EXCEPT !.log = Append(@, ResolveEv(a, m))]
    IN  IF ~m.raised /\ Truthy(m.ret)
        THEN [logged EXCEPT !.pc = "done", !.result = Finish(call.cap, m.ret)]
        ELSE IF call.idx < Len(call.list)
        THEN [logged EXCEPT !.idx = @ + 1,
                            !.log = Append(@, InvokeEv(call.list[call.idx + 1]))]
        ELSE [logged EXCEPT !.pc = "done", !.result = Finish(call.cap, Null)]

----------------------------------------------------------------------------
(* State of the coordinator after start-up *)

RECURSIVE Replay(_, _, _)
\* the stats of an adapter that has served s successful and e failed requests
Replay(st, s, e) ==
    IF e > 0 THEN Replay([UpdateStats(st, FALSE) EXCEPT !.lastRequest = TRUE], s, e - 1)
    ELSE IF s > 0 THEN Replay([UpdateStats(st, TRUE) EXCEPT !.lastRequest = TRUE], s - 1, e)
    ELSE st

\* request histories an adapter may have behind it when a run starts: fresh
\* (just constructed), one failure short of unhealthy, just unhealthy, one
\* success short of recovery
Histories ==
    LET half == HealthWindow \div 2
    IN  {<<0, 0>>, <<0, half>>, <<0, half + 1>>, <<half, half + 1>>}

CoordInit ==
    /\ sources = InitializeDataSources
    /\ \E h \in [Adapters -> Histories] :
          stats = [a \in Adapters |-> Replay(NewStats, h[a][1], h[a][2])]
    /\ calls = [c \in 1..MaxCalls |-> IdleCall]
    /\ late = {}
    /\ wrappedDone = [a \in Adapters |-> stats[a].successCount + stats[a].errorCount]
    /\ nested = 0
    \* getMultipleStocksData and getStockData have not been called
    /\ mTickers = <<>>
    /\ mPc = "idle"
    /\ mChunk = 0
    /\ fetch = <<>>
    /\ mResults = {}
    /\ store = <<>>
    /\ now = 0
    /\ gets = <<>>
    /\ cache = <<>>
    /\ hits = 0
    /\ misses = 0
    /\ gotten = 0
    /\ lastSet = <<>>
    /\ cLast = <<>>
    /\ fnArg = <<>>
    /\ fnRes = "none"

----------------------------------------------------------------------------
(* Coordinator actions *)

CurrentAdapter(c) == calls[c].list[calls[c].idx]

\* history: when the loop of a call has gone on to its next adapter, note
\* whether that adapter's isHealthy flag is false at this moment
Noted(before, after, st) ==
    IF after.pc = "await" /\ after.idx # before.idx
       /\ ~st[after.list[after.idx]].isHealthy
    THEN [after EXCEPT !.flagged = @ \cup {after.list[after.idx]}]
    ELSE after

\* the continuation of a caller whose promise has resolved runs as a
\* microtask, before any further I/O completion or timer callback is handled
NoResultPending == \A c \in DOMAIN calls : calls[c].pc # "done"

ReturnedCall == [IdleCall EXCEPT !.pc = "returned"]

LateOpRec(a, cap) == [a |-> a, kind |-> "op", nests |-> Nests(a, cap)]
LateTimerRec(a) == [a |-> a, kind |-> "timer", nests |-> FALSE]

\* a public capability method of the manager is called: tryDataSources takes
\* its list of adapters and calls the first one, all in one synchronous run
CallCapability(c, cap) ==
    /\ NoResultPending
    /\ calls[c].pc = "idle"
    /\ IF c = 1 THEN TRUE ELSE calls[c - 1].pc # "idle"
    /\ calls' = [calls EXCEPT ![c] =
            Begin(cap, TrySet(sources, stats),
                  {a \in Adapters : stats[a].isHealthy})]
    /\ UNCHANGED <<sources, stats, late, wrappedDone, nested>>
    /\ UNCHANGED NotCoord

\* the operation of the adapter a call waits for completes (resolves or
\* rejects) before the timer: makeRequest updates the statistics and the loop
\* of tryDataSources goes on; the timer of the race stays armed
OpSettles(c, outcome) ==
    /\ NoResultPending
    /\ calls[c].pc = "await"
    /\ LET a == CurrentAdapter(c)
           cap == calls[c].cap
           m == Capability(stats[a], a, cap, outcome)
       IN  /\ outcome \in OpOutcomes(a, cap) \ {"hang"}
           /\ stats' = [stats EXCEPT ![a] = m.stats]
           /\ calls' = [calls EXCEPT ![c] = Noted(calls[c], Continue(calls[c], m), stats)]
           /\ IF Wrapped(a, cap)
              THEN /\ LateTimerRec(a) \notin late
                   /\ Cardinality(late) < MaxLate
                   /\ late' = late \cup {LateTimerRec(a)}
                   /\ wrappedDone' = [wrappedDone EXCEPT ![a] = @ + 1]
              ELSE UNCHANGED <<late, wrappedDone>>
    /\ UNCHANGED <<sources, nested>>
    /\ UNCHANGED NotCoord

\* the timer of the race fires first: makeRequest records a failure and
\* returns null at once, the operation keeps running in the background
TimerFires(c) ==
    /\ NoResultPending
    /\ calls[c].pc = "await"
    /\ LET a == CurrentAdapter(c)
           cap == calls[c].cap
           m == Capability(stats[a], a, cap, "timeout")
       IN  /\ Wrapped(a, cap)
           /\ "hang" \in OpOutcomes(a, cap)
           /\ LateOpRec(a, cap) \notin late
           /\ Cardinality(late) < MaxLate
           /\ stats' = [stats EXCEPT ![a] = m.stats]
           /\ calls' = [calls EXCEPT ![c] = Noted(calls[c], Continue(calls[c], m), stats)]
           /\ late' = late \cup {LateOpRec(a, cap)}
           /\ wrappedDone' = [wrappedDone EXCEPT ![a] = @ + 1]
    /\ UNCHANGED <<sources, nested>>
    /\ UNCHANGED NotCoord

\* a slip: the completion of the loser of the race is counted too
LateEffect_Counted(st, a, success) ==
    [st EXCEPT ![a] = UpdateStats(st[a], success)]

\* what the completion of the loser of an already settled Promise.race does
\* to the statistics: nothing, the race promise is settled for good
LateEffect(st, a, success) == st

\* the operation of a request that timed out completes at last
LateOpCompletes(x, success) ==
    /\ NoResultPending
    /\ x \in late
    /\ x.kind = "op"
    /\ late' = late \ {x}
    /\ stats' = LateEffect(stats, x.a, success)
    /\ UNCHANGED <<sources, calls, wrappedDone, nested>>
    /\ UNCHANGED NotCoord

\* the timer of a request whose operation completed in time fires at last
LateTimerFires(x) ==
    /\ NoResultPending
    /\ x \in late
    /\ x.kind = "timer"
    /\ late' = late \ {x}
    /\ stats' = LateEffect(stats, x.a, FALSE)
    /\ UNCHANGED <<sources, calls, wrappedDone, nested>>
    /\ UNCHANGED NotCoord

\* a running yahoo operation that calls this.getStockInfo: such a request
\* goes through makeRequest like any other
NestedGetStockInfo(outcome) ==
    /\ NoResultPending
    /\ nested < MaxNested
    /\ \/ \E c \in DOMAIN calls :
            /\ calls[c].pc = "await"
            /\ Nests(CurrentAdapter(c), calls[c].cap)
       \/ \E x \in late : x.kind = "op" /\ x.nests
    /\ outcome \in {"value", "throw", "timeout"}
    /\ LET m == Capability(stats["yahoo"], "yahoo", "stockInfo", outcome)
       IN  stats' = [stats EXCEPT !["yahoo"] = m.stats]
    /\ wrappedDone' = [wrappedDone EXCEPT !["yahoo"] = @ + 1]
    /\ nested' = nested + 1
    /\ UNCHANGED <<sources, calls, late>>
    /\ UNCHANGED NotCoord

\* the caller of the capability method takes the result
Return(c) ==
    /\ calls[c].pc = "done"
    /\ calls' = [calls EXCEPT ![c] = ReturnedCall]
    /\ UNCHANGED <<sources, stats, late, wrappedDone, nested>>
    /\ UNCHANGED NotCoord

CoordNext ==
    \/ \E c \in 1..MaxCalls : Return(c)
    \/ \E c \in 1..MaxCalls, cap \in Caps : CallCapability(c, cap)
    \/ \E c \in 1..MaxCalls,
          outcome \in {"value", "empty", "null", "throw"} : OpSettles(c, outcome)
    \/ \E c \in 1..MaxCalls : TimerFires(c)
    \/ \E x \in late, success \in BOOLEAN : LateOpCompletes(x, success)
    \/ \E x \in late : LateTimerFires(x)
    \/ \E outcome \in {"value", "throw", "timeout"} : NestedGetStockInfo(outcome)

----------------------------------------------------------------------------
(* HistoricalDataService.getMultipleStocksData *)

\* the tickers a caller may pass
Tickers == {"bbca", "TLKM"}

\* String.prototype.toUpperCase on the tickers of the model
ToUpperCase(t) ==
    CASE t = "bbca" -> "BBCA"
      [] t = "tlkm" -> "TLKM"
      [] OTHER -> t

RECURSIVE ChunkArray_OneMore(_, _)
\* a slip: slices one element longer than asked for
ChunkArray_OneMore(array, chunkSize) ==
    IF Len(array) = 0 THEN <<>>
    ELSE IF Len(array) <= chunkSize + 1 THEN <<array>>
    ELSE <<SubSeq(array, 1, chunkSize + 1)>>
         \o ChunkArray_OneMore(SubSeq(array, chunkSize + 2, Len(array)), chunkSize)

RECURSIVE ChunkArray(_, _)
\* chunkArray: consecutive slices of chunkSize elements, the last may be shorter
ChunkArray(array, chunkSize) ==
    IF Len(array) = 0 THEN <<>>
    ELSE IF Len(array) <= chunkSize THEN <<array>>
    ELSE <<SubSeq(array, 1, chunkSize)>>
         \o ChunkArray(SubSeq(array, chunkSize + 1, Len(array)), chunkSize)

\* the chunks of a call, as positions in the tickers argument
Chunks(tickers) ==
    ChunkArray([i \in 1..Len(tickers) |-> i], ConcurrencyLimit)

ChunkMembers(tickers, k) ==
    {Chunks(tickers)[k][j] : j \in 1..Len(Chunks(tickers)[k])}

\* a slip: the per-ticker function has no try/catch
PerTicker_NoCatch(ok) == IF ok THEN "ok" ELSE "rejected"

\* the async function mapped over a chunk: it stores the data of a successful
\* getStockData and swallows (logs) the error of a failed one
PerTicker(ok) == IF ok THEN "ok" ELSE "failed"

\* chunk.map(async ticker => ...): every getStockData call of chunk k starts
StartChunk(f, tickers, k) ==
    [i \in DOMAIN f |->
        IF i \in ChunkMembers(tickers, k) THEN "running" ELSE f[i]]

\* a freshly started process: no call has been made
MultiInit ==
    /\ sources = InitializeDataSources
    /\ stats = [a \in Adapters |-> NewStats]
    /\ calls = [c \in 1..MaxCalls |-> IdleCall]
    /\ late = {}
    /\ wrappedDone = [a \in Adapters |-> 0]
    /\ nested = 0
    /\ mTickers = <<>>
    /\ mPc = "idle"
    /\ mChunk = 0
    /\ fetch = <<>>
    /\ mResults = {}
    /\ store = <<>>
    /\ now = 0
    /\ gets = <<>>
    /\ cache = <<>>
    /\ hits = 0
    /\ misses = 0
    /\ gotten = 0
    /\ lastSet = <<>>
    /\ cLast = <<>>
    /\ fnArg = <<>>
    /\ fnRes = "none"

\* getMultipleStocksData(tickers) is called: the chunks are formed and the
\* calls of the first chunk start; with no ticker at all it returns {} at once
GetMultipleStocksData(tickers) ==
    /\ mPc = "idle"
    /\ mTickers' = tickers
    /\ mResults' = {}
    /\ IF Len(Chunks(tickers)) = 0
       THEN /\ mPc' = "done"
            /\ mChunk' = 0
            /\ fetch' = <<>>
       ELSE /\ mPc' = "running"
            /\ mChunk' = 1
            /\ fetch' = StartChunk([i \in 1..Len(tickers) |-> "notStarted"],
                                   tickers, 1)
    /\ UNCHANGED NotMulti

\* the getStockData call for the ticker at position i settles; when it is the
\* last of its chunk, Promise.all resolves and the loop starts the next chunk
\* or returns the results
FetchSettles(i, ok) ==
    /\ mPc = "running"
    /\ i \in DOMAIN fetch
    /\ fetch[i] = "running"
    /\ LET status == PerTicker(ok)
           settled == [fetch EXCEPT ![i] = status]
       IN  /\ mResults' = IF ok THEN mResults \cup {ToUpperCase(mTickers[i])}
                           ELSE mResults
           /\ IF status = "rejected"
              THEN /\ mPc' = "rejected"
                   /\ fetch' = settled
                   /\ mChunk' = mChunk
              ELSE IF \E j \in DOMAIN settled : settled[j] = "running"
              THEN /\ mPc' = "running"
                   /\ fetch' = settled
                   /\ mChunk' = mChunk
              ELSE IF mChunk < Len(Chunks(mTickers))
              THEN /\ mPc' = "running"
                   /\ fetch' = StartChunk(settled, mTickers, mChunk + 1)
                   /\ mChunk' = mChunk + 1
              ELSE /\ mPc' = "done"
                   /\ fetch' = settled
                   /\ mChunk' = mChunk
    /\ UNCHANGED <<mTickers>>
    /\ UNCHANGED NotMulti

MultiNext ==
    \/ \E n \in 0..MaxSymbols : \E tickers \in [1..n -> Tickers] :
          GetMultipleStocksData(tickers)
    \/ \E i \in 1..MaxSymbols, ok \in BOOLEAN : FetchSettles(i, ok)

----------------------------------------------------------------------------
(* HistoricalDataService.getStockData, getCachedData and cacheData *)

\* file names under data/historical and data/metadata: `${ticker}.json`
Keys == {ToUpperCase(t) : t \in Tickers}

\* the cacheTTL values a caller may pass
TTLs == {0, 1}

\* the contents the remote dataset may have for a ticker when it is downloaded;
\* the point count and the date range of a parsed series are functions of it
Versions == {1, 2}

\* a series file (with its modification time) and its metadata sibling;
\* dataOf is the version the series file holds, metaOf the version whose
\* point count and date range the metadata file holds (0: no file)
NoRecord == [data |-> FALSE, mtime |-> 0, meta |-> FALSE, dataOf |-> 0, metaOf |-> 0]
Record(t) == [data |-> TRUE, mtime |-> t, meta |-> TRUE, dataOf |-> 1, metaOf |-> 1]

IdleGet ==
    [pc |-> "idle", ticker |-> "", useCache |-> FALSE, forceRefresh |-> FALSE,
     cacheTTL |-> 0, checked |-> FALSE, existed |-> FALSE, age |-> 0,
     readFailed |-> FALSE, fetched |-> FALSE, parsed |-> 0,
     wData |-> "none", wMeta |-> "none", overlap |-> FALSE,
     ret |-> "none", retKey |-> ""]

\* a slip: a record whose age equals the TTL counts as expired
Expired_AtTTL(age, cacheTTL) == age >= cacheTTL

\* getCachedData: if (age > cacheTTL) the cache is expired
Expired(age, cacheTTL) == age > cacheTTL

\* getStockData: if (useCache && !forceRefresh)
ChecksCache(useCache, forceRefresh) == useCache /\ ~forceRefresh

\* getCachedData up to the expiry test: both fs.stat results must be there and
\* the series file must not be expired for the files to be read
Usable(rec, t, cacheTTL) ==
    /\ rec.data
    /\ rec.meta
    /\ ~Expired(t - rec.mtime, cacheTTL)

\* fs.writeFile(dataFile, JSON.stringify(data)) succeeding at time t
WriteDataFile(rec, t, parsed) ==
    [rec EXCEPT !.data = TRUE, !.mtime = t, !.dataOf = parsed]

\* a slip: the metadata is not taken from the data being cached
WriteMetaFile_Stale(rec, parsed) ==
    [rec EXCEPT !.meta = TRUE, !.metaOf = 0]

\* fs.writeFile(metadataFile, JSON.stringify(metadata)) succeeding; cacheData
\* builds the metadata from the parsed data (totalPoints, startDate, endDate)
WriteMetaFile(rec, parsed) ==
    [rec EXCEPT !.meta = TRUE, !.metaOf = parsed]

\* a slip: a failed write makes cacheData, and with it getStockData, fail
AfterWrite_Throws(pc, ok, other) ==
    IF pc # "write" THEN pc
    ELSE IF ~ok THEN "failed"
    ELSE IF other = "ok" THEN "done" ELSE "write"

\* where getStockData stands when one of the two writes of cacheData settles:
\* Promise.all rejects with the first failure, which cacheData catches and
\* logs, and resolves when both writes have succeeded; then getStockData
\* returns the parsed data.  `other` is the state of the other write.
AfterWrite(pc, ok, other) ==
    IF pc # "write" THEN pc
    ELSE IF ~ok THEN "done"
    ELSE IF other = "ok" THEN "done" ELSE "write"

\* two spellings of one ticker, the one whose records the calls work on; the
\* records of the other ticker are there and no call is made for it
SameTickers == {"bbca", "BBCA"}

\* a freshly started process with the files earlier runs have left behind
SeriesInit ==
    /\ sources = InitializeDataSources
    /\ stats = [a \in Adapters |-> NewStats]
    /\ calls = [c \in 1..MaxCalls |-> IdleCall]
    /\ late = {}
    /\ wrappedDone = [a \in Adapters |-> 0]
    /\ nested = 0
    /\ mTickers = <<>>
    /\ mPc = "idle"
    /\ mChunk = 0
    /\ fetch = <<>>
    /\ mResults = {}
    /\ store \in {f \in [Keys -> {NoRecord, Record(0)}] : f["TLKM"] = Record(0)}
    /\ now = 0
    /\ gets = [g \in 1..MaxGets |-> IdleGet]
    /\ cache = <<>>
    /\ hits = 0
    /\ misses = 0
    /\ gotten = 0
    /\ lastSet = <<>>
    /\ cLast = <<>>
    /\ fnArg = <<>>
    /\ fnRes = "none"

\* no getStockData call has a result its caller has not yet picked up
NoGetPending ==
    \A g \in DOMAIN gets : gets[g].pc \notin {"done", "failed"}

\* a write of cacheData is still under way
WritePending(get) == get.wData = "pending" \/ get.wMeta = "pending"

\* the call is between its invocation and the end of its last file operation
InProgress(get) ==
    get.pc \in {"stat", "read", "download", "write", "done", "failed"}
        \/ WritePending(get)

\* getStockData(ticker, options) is called: the ticker is uppercased and the
\* call goes to the cache check or straight to the download
GetStockData(g, ticker, useCache, cacheTTL, forceRefresh) ==
    /\ NoGetPending
    /\ gets[g].pc = "idle"
    /\ IF g = 1 THEN TRUE ELSE gets[g - 1].pc # "idle"
    /\ LET key == ToUpperCase(ticker)
           others == {h \in DOMAIN gets :
                         h # g /\ InProgress(gets[h]) /\ gets[h].ticker = key}
       IN  gets' = [h \in DOMAIN gets |->
              IF h = g
              THEN [IdleGet EXCEPT
                      !.pc = IF ChecksCache(useCache, forceRefresh)
                             THEN "stat" ELSE "download",
                      !.ticker = key,
                      !.useCache = useCache,
                      !.forceRefresh = forceRefresh,
                      !.cacheTTL = cacheTTL,
                      !.overlap = others # {}]
              ELSE IF h \in others THEN [gets[h] EXCEPT !.overlap = TRUE]
              ELSE gets[h]]
    /\ UNCHANGED <<store, now>>
    /\ UNCHANGED NotSeries

\* getCachedData: the two fs.stat calls settle and the age is tested
StatFiles(g) ==
    /\ NoGetPending
    /\ gets[g].pc = "stat"
    /\ LET rec == store[gets[g].ticker]
       IN  gets' = [gets EXCEPT
              ![g].pc = IF Usable(rec, now, gets[g].cacheTTL)
                        THEN "read" ELSE "download",
              ![g].checked = TRUE,
              ![g].existed = rec.data /\ rec.meta,
              ![g].age = IF rec.data THEN now - rec.mtime ELSE 0]
    /\ UNCHANGED <<store, now>>
    /\ UNCHANGED NotSeries

\* getCachedData: the two fs.readFile calls and JSON.parse; a missing or
\* unreadable file is caught, logged and reported as no cached data
ReadFiles(g, ok) ==
    /\ NoGetPending
    /\ gets[g].pc = "read"
    /\ LET rec == store[gets[g].ticker]
           good == ok /\ rec.data /\ rec.meta
       IN  gets' = [gets EXCEPT
              ![g].pc = IF good THEN "done" ELSE "download",
              ![g].readFailed = ~good,
              ![g].ret = IF good THEN "cached" ELSE "none",
              ![g].retKey = IF good THEN gets[g].ticker ELSE ""]
    /\ UNCHANGED <<store, now>>
    /\ UNCHANGED NotSeries

\* downloadStockData and parseStockCSV: an error of either rejects
\* getStockData; otherwise cacheData starts its two writes (useCache) or the
\* parsed data is returned
Download(g, ok, ver) ==
    /\ NoGetPending
    /\ gets[g].pc = "download"
    /\ LET caching == ok /\ gets[g].useCache
       IN  gets' = [gets EXCEPT
              ![g].pc = IF ~ok THEN "failed"
                        ELSE IF caching THEN "write" ELSE "done",
              ![g].fetched = TRUE,
              ![g].parsed = IF ok THEN ver ELSE 0,
              ![g].wData = IF caching THEN "pending" ELSE "none",
              ![g].wMeta = IF caching THEN "pending" ELSE "none",
              ![g].ret = IF ok /\ ~caching THEN "fresh" ELSE "none",
              ![g].retKey = IF ok /\ ~caching THEN gets[g].ticker ELSE ""]
    /\ UNCHANGED <<store, now>>
    /\ UNCHANGED NotSeries

\* what getStockData returns once cacheData is over
Returned(get, pc) ==
    [get EXCEPT !.pc = pc,
                !.ret = IF pc = "done" THEN "fresh" ELSE get.ret,
                !.retKey = IF pc = "done" THEN get.ticker ELSE get.retKey]

\* the write of the series file settles
WriteData(g, ok) ==
    /\ NoGetPending
    /\ gets[g].wData = "pending"
    /\ store' = IF ok
                THEN [store EXCEPT ![gets[g].ticker] =
                         WriteDataFile(@, now, gets[g].parsed)]
                ELSE store
    /\ gets' = [gets EXCEPT ![g] =
          Returned([gets[g] EXCEPT !.wData = IF ok THEN "ok" ELSE "failed"],
                   AfterWrite(gets[g].pc, ok, gets[g].wMeta))]
    /\ UNCHANGED now
    /\ UNCHANGED NotSeries

\* the write of the metadata file settles
WriteMeta(g, ok) ==
    /\ NoGetPending
    /\ gets[g].wMeta = "pending"
    /\ store' = IF ok
                THEN [store EXCEPT ![gets[g].ticker] =
                         WriteMetaFile(@, gets[g].parsed)]
                ELSE store
    /\ gets' = [gets EXCEPT ![g] =
          Returned([gets[g] EXCEPT !.wMeta = IF ok THEN "ok" ELSE "failed"],
                   AfterWrite(gets[g].pc, ok, gets[g].wData))]
    /\ UNCHANGED now
    /\ UNCHANGED NotSeries

\* the caller picks up the result or the error of a finished call; a write
\* that cacheData no longer waits for stays under way
ReturnGet(g) ==
    /\ gets[g].pc \in {"done", "failed"}
    /\ gets' = [gets EXCEPT ![g] =
          IF WritePending(gets[g])
          THEN [IdleGet EXCEPT !.pc = "returned",
                               !.ticker = gets[g].ticker,
                               !.parsed = gets[g].parsed,
                               !.wData = gets[g].wData,
                               !.wMeta = gets[g].wMeta]
          ELSE [IdleGet EXCEPT !.pc = "returned"]]
    /\ UNCHANGED <<store, now>>
    /\ UNCHANGED NotSeries

\* a caller that got its answer may call again
Recycle(g) ==
    /\ gets[g].pc = "returned"
    /\ ~WritePending(gets[g])
    /\ \A h \in DOMAIN gets : h > g => gets[h].pc \in {"idle", "returned"}
    /\ gets' = [gets EXCEPT ![g] = IdleGet]
    /\ UNCHANGED <<store, now>>
    /\ UNCHANGED NotSeries

\* Date.now() advances
Tick ==
    /\ NoGetPending
    /\ now < MaxTime
    /\ now' = now + 1
    /\ UNCHANGED <<store, gets>>
    /\ UNCHANGED NotSeries

SeriesNext ==
    \/ \E g \in 1..MaxGets, ticker \in SameTickers, useCache \in BOOLEAN,
          cacheTTL \in TTLs, forceRefresh \in BOOLEAN :
          GetStockData(g, ticker, useCache, cacheTTL, forceRefresh)
    \/ \E g \in 1..MaxGets : StatFiles(g)
    \/ \E g \in 1..MaxGets, ok \in BOOLEAN : ReadFiles(g, ok)
    \/ \E g \in 1..MaxGets, ok \in BOOLEAN, ver \in Versions : Download(g, ok, ver)
    \/ \E g \in 1..MaxGets, ok \in BOOLEAN : WriteData(g, ok)
    \/ \E g \in 1..MaxGets, ok \in BOOLEAN : WriteMeta(g, ok)
    \/ \E g \in 1..MaxGets : ReturnGet(g)
    \/ \E g \in 1..MaxGets : Recycle(g)
    \/ Tick

\* the persisting of the records of one ticker by overlapping calls, while
\* the remote dataset changes; the clock stands still
PersistInit ==
    /\ sources = InitializeDataSources
    /\ stats = [a \in Adapters |-> NewStats]
    /\ calls = [c \in 1..MaxCalls |-> IdleCall]
    /\ late = {}
    /\ wrappedDone = [a \in Adapters |-> 0]
    /\ nested = 0
    /\ mTickers = <<>>
    /\ mPc = "idle"
    /\ mChunk = 0
    /\ fetch = <<>>
    /\ mResults = {}
    /\ store \in {f \in [Keys -> {NoRecord, Record(0)}] : f["TLKM"] = Record(0)}
    /\ now = 0
    /\ gets = [g \in 1..MaxWriters |-> IdleGet]
    /\ cache = <<>>
    /\ hits = 0
    /\ misses = 0
    /\ gotten = 0
    /\ lastSet = <<>>
    /\ cLast = <<>>
    /\ fnArg = <<>>
    /\ fnRes = "none"

PersistNext ==
    \/ \E g \in 1..MaxWriters, ticker \in SameTickers, useCache \in BOOLEAN,
          forceRefresh \in BOOLEAN :
          GetStockData(g, ticker, useCache, 0, forceRefresh)
    \/ \E g \in 1..MaxWriters : StatFiles(g)
    \/ \E g \in 1..MaxWriters, ok \in BOOLEAN : ReadFiles(g, ok)
    \/ \E g \in 1..MaxWriters, ok \in BOOLEAN, ver \in Versions :
          Download(g, ok, ver)
    \/ \E g \in 1..MaxWriters, ok \in BOOLEAN : WriteData(g, ok)
    \/ \E g \in 1..MaxWriters, ok \in BOOLEAN : WriteMeta(g, ok)
    \/ \E g \in 1..MaxWriters : ReturnGet(g)
    \/ \E g \in 1..MaxWriters : Recycle(g)

----------------------------------------------------------------------------
(* The cache layer: MemoryCache over a NodeCache instance, and CacheManager *)

CacheKeys == {"stock:info:BBCA", "market:overview"}
CacheValues == {"v1", "v2"}

\* the ttl arguments a caller may pass, in seconds (0: also an omitted ttl)
CacheTtls == {0, 1, 2}

\* what get returns for a key without a usable entry
Undefined == "undefined"

NoEntry == [held |-> FALSE, v |-> Undefined, t |-> 0]

\* NodeCache: an entry whose time of expiry (0: never) lies before `time`
NodeExpired(e, time) == e.t # 0 /\ e.t < time

\* NodeCache.get: the value of a held entry that has not expired; an expired
\* entry is deleted on the way (deleteOnExpire)
NodeGet(data, key, time) ==
    IF data[key].held /\ ~NodeExpired(data[key], time)
    THEN [data |-> data, ret |-> data[key].v]
    ELSE [data |-> [data EXCEPT ![key] = NoEntry], ret |-> Undefined]

\* NodeCache.set: the entry expires ttl seconds from now (ttl 0: never)
NodeSet(data, key, value, ttl, time) ==
    [data EXCEPT ![key] =
        [held |-> TRUE, v |-> value, t |-> IF ttl = 0 THEN 0 ELSE time + ttl]]

NodeDel(data, key) == [data EXCEPT ![key] = NoEntry]

NodeFlushAll(data) == [k \in DOMAIN data |-> NoEntry]

\* NodeCache.keys: the keys of all entries held, expired ones included
NodeKeys(data) == {k \in DOMAIN data : data[k].held}

\* NodeCache's periodic check (checkperiod): expired entries are deleted
NodeCheckData(data, time) ==
    [k \in DOMAIN data |->
        IF data[k].held /\ NodeExpired(data[k], time) THEN NoEntry ELSE data[k]]

\* a slip: the ttl argument is dropped
EffectiveTtl_Dropped(ttl) == DefaultTtl

\* MemoryCache.set: ttl || 300
EffectiveTtl(ttl) == IF ttl = 0 THEN DefaultTtl ELSE ttl

\* a slip: every get counts as a hit
MemoryGet_AlwaysHit(data, h, m, key, time) ==
    LET g == NodeGet(data, key, time)
    IN  [data |-> g.data, hits |-> h + 1, misses |-> m, ret |-> g.ret]

\* MemoryCache.get: a hit when NodeCache returns a value, else a miss
MemoryGet(data, h, m, key, time) ==
    LET g == NodeGet(data, key, time)
    IN  IF g.ret # Undefined
        THEN [data |-> g.data, hits |-> h + 1, misses |-> m, ret |-> g.ret]
        ELSE [data |-> g.data, hits |-> h, misses |-> m + 1, ret |-> Undefined]

\* MemoryCache.stats
MemoryStats(data, h, m) ==
    [hits |-> h, misses |-> m, keys |-> Cardinality(NodeKeys(data))]

NothingSet == [on |-> FALSE, at |-> 0, ttl |-> 0, value |-> Undefined]

NoReport == [hits |-> 0, misses |-> 0, keys |-> 0]

\* an operation on the cache and what it gave back: the value or marker of a
\* get, the report of a stats
Op(op, key, time, ret, report) ==
    [op |-> op, key |-> key, at |-> time, ret |-> ret, report |-> report,
     raised |-> FALSE]

NoOp == Op("none", "", 0, Undefined, NoReport)

\* a freshly constructed cache
CacheInit ==
    /\ sources = InitializeDataSources
    /\ stats = [a \in Adapters |-> NewStats]
    /\ calls = [c \in 1..MaxCalls |-> IdleCall]
    /\ late = {}
    /\ wrappedDone = [a \in Adapters |-> 0]
    /\ nested = 0
    /\ mTickers = <<>>
    /\ mPc = "idle"
    /\ mChunk = 0
    /\ fetch = <<>>
    /\ mResults = {}
    /\ store = <<>>
    /\ now = 0
    /\ gets = <<>>
    /\ cache = [k \in CacheKeys |-> NoEntry]
    /\ hits = 0
    /\ misses = 0
    /\ gotten = 0
    /\ lastSet = [k \in CacheKeys |-> NothingSet]
    /\ cLast = NoOp
    /\ fnArg = <<>>
    /\ fnRes = "none"

\* cacheManager.get(key): MemoryCache.get inside try/catch
CacheGet(key) ==
    /\ gotten < MaxCacheGets
    /\ LET g == MemoryGet(cache, hits, misses, key, now)
       IN  /\ cache' = g.data
           /\ hits' = g.hits
           /\ misses' = g.misses
           /\ cLast' = Op("get", key, now, g.ret, NoReport)
    /\ gotten' = gotten + 1
    /\ UNCHANGED <<lastSet, now>>
    /\ UNCHANGED NotCache

\* cacheManager.set(key, value, ttl): NodeCache.set returns true, so
\* MemoryCache.set does not throw
CacheSet(key, value, ttl) ==
    /\ cache' = NodeSet(cache, key, value, EffectiveTtl(ttl), now)
    /\ lastSet' = [lastSet EXCEPT ![key] =
          [on |-> TRUE, at |-> now, ttl |-> ttl, value |-> value]]
    /\ cLast' = Op("set", key, now, Undefined, NoReport)
    /\ UNCHANGED <<hits, misses, gotten, now>>
    /\ UNCHANGED NotCache

\* cacheManager.del(key)
CacheDel(key) ==
    /\ cache' = NodeDel(cache, key)
    /\ lastSet' = [lastSet EXCEPT ![key] = NothingSet]
    /\ cLast' = Op("del", key, now, Undefined, NoReport)
    /\ UNCHANGED <<hits, misses, gotten, now>>
    /\ UNCHANGED NotCache

\* cacheManager.clear()
CacheClear ==
    /\ cache' = NodeFlushAll(cache)
    /\ lastSet' = [k \in CacheKeys |-> NothingSet]
    /\ cLast' = Op("clear", "", now, Undefined, NoReport)
    /\ UNCHANGED <<hits, misses, gotten, now>>
    /\ UNCHANGED NotCache

\* cacheManager.stats()
CacheStats ==
    /\ cLast' = Op("stats", "", now, Undefined, MemoryStats(cache, hits, misses))
    /\ UNCHANGED <<cache, hits, misses, gotten, lastSet, now>>
    /\ UNCHANGED NotCache

\* the timer of NodeCache's periodic check fires
CheckData ==
    /\ cache' = NodeCheckData(cache, now)
    /\ cache' # cache
    /\ UNCHANGED <<hits, misses, gotten, lastSet, cLast, now>>
    /\ UNCHANGED NotCache

CacheNext ==
    \/ \E key \in CacheKeys : CacheGet(key)
    \/ \E key \in CacheKeys, value \in CacheValues, ttl \in CacheTtls :
          CacheSet(key, value, ttl)
    \/ \E key \in CacheKeys : CacheDel(key)
    \/ CacheClear
    \/ CacheStats
    \/ CheckData
    \/ Tick
(***************************************************************************)
(* Text and dates.  A string is a sequence of one-character strings, so    *)
(* that splitting, trimming, normalising and number parsing are computed.  *)
(* A Date is the number of hours since local midnight of 1 January 2023   *)
(* (the server's zone, Asia/Jakarta, has no daylight saving).             *)
(***************************************************************************)
DigitChars == <<"0", "1", "2", "3", "4", "5", "6", "7", "8", "9">>

UpperChars == <<"A", "B", "C", "D", "E", "F", "G", "H", "I", "J", "K", "L", "M",
                "N", "O", "P", "Q", "R", "S", "T", "U", "V", "W", "X", "Y", "Z">>

LowerChars == <<"a", "b", "c", "d", "e", "f", "g", "h", "i", "j", "k", "l", "m",
                "n", "o", "p", "q", "r", "s", "t", "u", "v", "w", "x", "y", "z">>

Range(s) == {s[i] : i \in DOMAIN s}

Digits == Range(DigitChars)

Uppers == Range(UpperChars)

IsDigit(c) == c \in Digits

DigitValue(c) == (CHOOSE i \in DOMAIN DigitChars : DigitChars[i] = c) - 1

IsSpace(c) == c \in {" ", "\t", "\r", "\n"}

\* String.prototype.toLowerCase
LowerChar(c) ==
    IF c \in Uppers
    THEN LowerChars[CHOOSE i \in DOMAIN UpperChars : UpperChars[i] = c]
    ELSE c

ToLowerCase(s) == [i \in DOMAIN s |-> LowerChar(s[i])]

RECURSIVE FirstInk(_, _)
FirstInk(s, i) ==
    IF i > Len(s) \/ ~IsSpace(s[i]) THEN i ELSE FirstInk(s, i + 1)

RECURSIVE LastInk(_, _)
LastInk(s, i) ==
    IF i < 1 \/ ~IsSpace(s[i]) THEN i ELSE LastInk(s, i - 1)

\* String.prototype.trim
Trim(s) == SubSeq(s, FirstInk(s, 1), LastInk(s, Len(s)))

\* s.replace(/[...]/g, ''): the characters of s that are not in the class
Without(s, class) == SelectSeq(s, LAMBDA c : c \notin class)

\* the pieces of s from position start on, position i being looked at
RECURSIVE SplitFrom(_, _, _, _)
SplitFrom(s, sep, i, start) ==
    IF i > Len(s) THEN <<SubSeq(s, start, Len(s))>>
    ELSE IF s[i] = sep
    THEN <<SubSeq(s, start, i - 1)>> \o SplitFrom(s, sep, i + 1, i + 1)
    ELSE SplitFrom(s, sep, i + 1, start)

\* String.prototype.split with a one-character separator
Split(s, sep) == SplitFrom(s, sep, 1, 1)

\* String.prototype.includes
Includes(s, sub) ==
    \E i \in 0..(Len(s) - Len(sub)) : SubSeq(s, i + 1, i + Len(sub)) = sub

\* the value of a sequence of digits
RECURSIVE DigitsValue(_)
DigitsValue(s) ==
    IF s = <<>> THEN 0
    ELSE 10 * DigitsValue(SubSeq(s, 1, Len(s) - 1)) + DigitValue(s[Len(s)])

AllDigits(s) == \A i \in DOMAIN s : IsDigit(s[i])

\* a number: NaN, or a finite value
NotANumber == [nan |-> TRUE, value |-> 0]

Finite(n) == [nan |-> FALSE, value |-> n]

\* parseFloat on text holding only digits and '-': optional leading sign,
\* then the longest run of digits; NaN when there is no digit there
ParseFloat(s) ==
    LET neg == s # <<>> /\ s[1] = "-"
        body == IF neg THEN Tail(s) ELSE s
        stops == {i \in DOMAIN body : ~IsDigit(body[i])}
        run == IF stops = {} THEN Len(body)
               ELSE (CHOOSE i \in stops : \A j \in stops : i <= j) - 1
    IN  IF run = 0 THEN NotANumber
        ELSE IF neg THEN Finite(0 - DigitsValue(SubSeq(body, 1, run)))
        ELSE Finite(DigitsValue(SubSeq(body, 1, run)))

IsLeap(y) == (y % 4 = 0 /\ y % 100 # 0) \/ y % 400 = 0

DaysInMonth(y, m) ==
    IF m = 2 THEN (IF IsLeap(y) THEN 29 ELSE 28)
    ELSE IF m \in {4, 6, 9, 11} THEN 30 ELSE 31

RECURSIVE DaysBeforeYear(_)
DaysBeforeYear(y) ==
    IF y = 2023 THEN 0
    ELSE IF y > 2023
    THEN DaysBeforeYear(y - 1) + (IF IsLeap(y - 1) THEN 366 ELSE 365)
    ELSE DaysBeforeYear(y + 1) - (IF IsLeap(y) THEN 366 ELSE 365)

RECURSIVE DaysBeforeMonth(_, _)
DaysBeforeMonth(y, m) ==
    IF m = 1 THEN 0 ELSE DaysBeforeMonth(y, m - 1) + DaysInMonth(y, m - 1)

FloorDiv(a, b) == IF a >= 0 THEN a \div b ELSE 0 - ((b - 1 - a) \div b)

\* new Date(year, monthIndex, day): local midnight; a month index outside
\* 0..11 or a day outside the month carries into the neighbouring months
NewDate(year, monthIndex, day) ==
    LET y == year + FloorDiv(monthIndex, 12)
        m == (monthIndex - 12 * FloorDiv(monthIndex, 12)) + 1
    IN  24 * (DaysBeforeYear(y) + DaysBeforeMonth(y, m) + day - 1)


(***************************************************************************)
(* CSVParser: the column map, the row parser and parseStockCSV             *)
(***************************************************************************)
AlphaNumeric == Range(LowerChars) \cup Digits

Keep(s, class) == SelectSeq(s, LAMBDA c : c \in class)

\* header.toLowerCase().replace(/[^a-z0-9]/g, '')
Normalized(header) == Keep(ToLowerCase(header), AlphaNumeric)

\* the names a normalised header is compared with for equality (first pass)
ExactSynonyms ==
    [date |-> {<<"d", "a", "t", "e">>, <<"t", "a", "n", "g", "g", "a", "l">>, <<"t", "i", "m", "e">>, <<"t", "i", "m", "e", "s", "t", "a", "m", "p">>},
     open |-> {<<"o", "p", "e", "n">>, <<"o", "p", "e", "n", "p", "r", "i", "c", "e">>, <<"b", "u", "k", "a">>},
     high |-> {<<"h", "i", "g", "h">>, <<"t", "i", "n", "g", "g", "i">>, <<"m", "a", "x">>},
     low |-> {<<"l", "o", "w">>, <<"r", "e", "n", "d", "a", "h">>, <<"m", "i", "n">>},
     close |-> {<<"c", "l", "o", "s", "e">>, <<"c", "l", "o", "s", "e", "p", "r", "i", "c", "e">>, <<"t", "u", "t", "u", "p">>, <<"a", "k", "h", "i", "r">>},
     volume |-> {<<"v", "o", "l", "u", "m", "e">>, <<"v", "o", "l">>}]

\* the tokens a normalised header is searched for (fallback passes)
SubstringTokens ==
    [date |-> {<<"d", "a", "t", "e">>, <<"t", "a", "n", "g", "g", "a", "l">>, <<"t", "i", "m", "e">>},
     open |-> {<<"o", "p", "e", "n">>, <<"b", "u", "k", "a">>},
     high |-> {<<"h", "i", "g", "h">>, <<"t", "i", "n", "g", "g", "i">>},
     low |-> {<<"l", "o", "w">>, <<"r", "e", "n", "d", "a", "h">>},
     close |-> {<<"c", "l", "o", "s", "e">>, <<"t", "u", "t", "u", "p">>},
     adjustedClose |-> {<<"a", "d", "j">>, <<"a", "d", "j", "u", "s", "t", "e", "d">>}]

\* map.<role> === undefined; columns are numbered from 1 here
NoColumn == 0

\* headers.forEach assigns on every match, so the last matching column stays
LastOf(S) == IF S = {} THEN NoColumn ELSE CHOOSE i \in S : \A j \in S : j <= i

\* the columns whose normalised header is, or contains, a name of the role
ExactColumns(normalized, role) ==
    {i \in DOMAIN normalized : normalized[i] \in ExactSynonyms[role]}

SubstringColumns(normalized, role) ==
    {i \in DOMAIN normalized :
        \E t \in SubstringTokens[role] : Includes(normalized[i], t)}

CreateColumnMap_SubstringFirst(headers) ==
    LET normalized == [i \in DOMAIN headers |-> Normalized(headers[i])]
        Pick(role) == LastOf(SubstringColumns(normalized, role))
    IN  [date |-> Pick("date"), open |-> Pick("open"), high |-> Pick("high"),
         low |-> Pick("low"), close |-> Pick("close"),
         volume |-> LastOf(ExactColumns(normalized, "volume")),
         adjustedClose |-> LastOf(SubstringColumns(normalized, "adjustedClose"))]

\* createColumnMap(headers): a first pass of exact comparisons over all
\* headers, then for each of date, open, high, low, close still undefined a
\* pass of substring searches
CreateColumnMap(headers) ==
    LET normalized == [i \in DOMAIN headers |-> Normalized(headers[i])]
        Pick(role) ==
            IF ExactColumns(normalized, role) # {}
            THEN LastOf(ExactColumns(normalized, role))
            ELSE LastOf(SubstringColumns(normalized, role))
    IN  [date |-> Pick("date"), open |-> Pick("open"), high |-> Pick("high"),
         low |-> Pick("low"), close |-> Pick("close"),
         volume |-> LastOf(ExactColumns(normalized, "volume")),
         adjustedClose |-> LastOf(SubstringColumns(normalized, "adjustedClose"))]

Min(x, y) == IF x <= y THEN x ELSE y

\* a number, or null
NullNumber == [null |-> TRUE, value |-> 0]

NumberOf(n) == [null |-> FALSE, value |-> n]

\* values[column]: undefined when the role has no column or the row is short;
\* parseNumber treats undefined like the empty text
Cell(values, column) ==
    IF column \in DOMAIN values THEN values[column] ELSE <<>>

ParseNumber(numStr) ==
    IF Trim(numStr) = <<>> THEN NullNumber
    ELSE LET cleaned == Trim(Keep(Without(numStr, {"\"", "'", ","}),
                                  Digits \cup {".", "-"}))
         IN  IF cleaned = <<>> \/ cleaned = <<"-">> THEN NullNumber
             ELSE IF ParseFloat(cleaned).nan THEN NullNumber
             ELSE NumberOf(ParseFloat(cleaned).value)

\* a Date, or the error parseDate throws
InvalidDate == [ok |-> FALSE, time |-> 0]

DateOf(t) == [ok |-> TRUE, time |-> t]

\* one of the four patterns: three runs of digits of the given lengths
Matches(parts, lens) ==
    /\ Len(parts) = 3
    /\ \A i \in 1..3 : AllDigits(parts[i]) /\ Len(parts[i]) \in lens[i]

ParseDate(dateStr) ==
    LET cleaned == Trim(Without(dateStr, {"\"", "'"}))
        dash == Split(cleaned, "-")
        slash == Split(cleaned, "/")
        Ymd(p) == DateOf(NewDate(DigitsValue(p[1]), DigitsValue(p[2]) - 1,
                                 DigitsValue(p[3])))
        Dmy(p) == DateOf(NewDate(DigitsValue(p[3]), DigitsValue(p[2]) - 1,
                                 DigitsValue(p[1])))
    IN  IF Matches(dash, <<{4}, {1, 2}, {1, 2}>>) THEN Ymd(dash)
        ELSE IF Matches(slash, <<{1, 2}, {1, 2}, {4}>>) THEN Dmy(slash)
        ELSE IF Matches(dash, <<{1, 2}, {1, 2}, {4}>>) THEN Dmy(dash)
        ELSE IF Matches(slash, <<{4}, {1, 2}, {1, 2}>>) THEN Ymd(slash)
        \* new Date(cleaned) of a text in none of the formats: the texts of
        \* the model ("" and "n/a") give an invalid Date, which is thrown
        ELSE InvalidDate

NoPoint == [point |-> FALSE, date |-> 0, open |-> 0, high |-> 0, low |-> 0,
            close |-> 0, volume |-> 0, adjustedClose |-> NullNumber]

ParseDataRow_NoValidation(values, columnMap) ==
    LET date == ParseDate(Cell(values, columnMap.date))
        open == ParseNumber(Cell(values, columnMap.open))
        high == ParseNumber(Cell(values, columnMap.high))
        low == ParseNumber(Cell(values, columnMap.low))
        close == ParseNumber(Cell(values, columnMap.close))
    IN  IF columnMap.date = NoColumn THEN NoPoint
        ELSE IF ~date.ok THEN NoPoint
        ELSE IF open.null \/ high.null \/ low.null \/ close.null THEN NoPoint
        ELSE [point |-> TRUE, date |-> date.time, open |-> open.value,
              high |-> high.value, low |-> low.value, close |-> close.value,
              volume |-> 0, adjustedClose |-> NullNumber]

\* parseDataRow: every throw inside is caught and turned into null
ParseDataRow(values, columnMap) ==
    LET date == ParseDate(Cell(values, columnMap.date))
        open == ParseNumber(Cell(values, columnMap.open))
        high == ParseNumber(Cell(values, columnMap.high))
        low == ParseNumber(Cell(values, columnMap.low))
        close == ParseNumber(Cell(values, columnMap.close))
        volume == ParseNumber(Cell(values, columnMap.volume))
        adjusted == ParseNumber(Cell(values, columnMap.adjustedClose))
    IN  IF columnMap.date = NoColumn THEN NoPoint
        ELSE IF ~date.ok THEN NoPoint
        ELSE IF open.null \/ high.null \/ low.null \/ close.null THEN NoPoint
        ELSE IF \/ open.value <= 0 \/ high.value <= 0
                \/ low.value <= 0 \/ close.value <= 0 THEN NoPoint
        ELSE IF \/ high.value < Max(open.value, close.value)
                \/ low.value > Min(open.value, close.value)
                \/ high.value < low.value THEN NoPoint
        ELSE [point |-> TRUE, date |-> date.time, open |-> open.value,
              high |-> high.value, low |-> low.value, close |-> close.value,
              \* parseNumber(...) || 0 and parseNumber(...) || undefined
              volume |-> IF columnMap.volume = NoColumn \/ volume.null
                         THEN 0 ELSE volume.value,
              adjustedClose |-> IF columnMap.adjustedClose = NoColumn
                                   \/ adjusted.null \/ adjusted.value = 0
                                THEN NullNumber ELSE adjusted]

\* Array.prototype.sort with (a, b) => a.date.getTime() - b.date.getTime():
\* stable, so points of equal date keep their input order
RECURSIVE SortByDate(_)
SortByDate(points) ==
    IF points = <<>> THEN <<>>
    ELSE LET rest == SortByDate(SubSeq(points, 1, Len(points) - 1))
             last == points[Len(points)]
             before == SelectSeq(rest, LAMBDA p : p.date <= last.date)
             after == SelectSeq(rest, LAMBDA p : p.date > last.date)
         IN  before \o <<last>> \o after

Threw(message) == [pc |-> "threw", message |-> message]

ReturnedValue(value) == [pc |-> "returned", value |-> value]

\* the two errors parseStockCSV throws
ParseError == "Invalid CSV data: insufficient rows"

DataError == "No valid data points found in CSV"

ParseStockCSV_Unsorted(csvData, ticker) ==
    LET lines == Split(Trim(csvData), "\n")
        headers == LET cells == Split(lines[1], ",")
                   IN  [k \in DOMAIN cells |-> ToLowerCase(Trim(cells[k]))]
        columnMap == CreateColumnMap(headers)
        Values(i) == LET cells == Split(lines[i], ",")
                     IN  [k \in DOMAIN cells |-> Trim(cells[k])]
        Row(i) == IF Len(Values(i)) # Len(headers) THEN NoPoint
                  ELSE ParseDataRow(Values(i), columnMap)
        dataPoints == SelectSeq([i \in 1..(Len(lines) - 1) |-> Row(i + 1)],
                                LAMBDA p : p.point)
    IN  IF Len(lines) < 2 THEN Threw(ParseError)
        ELSE IF dataPoints = <<>> THEN Threw(DataError)
        ELSE ReturnedValue([ticker |-> ToUpperCase(ticker),
                            dataPoints |-> dataPoints,
                            startDate |-> dataPoints[1].date,
                            endDate |-> dataPoints[Len(dataPoints)].date,
                            totalPoints |-> Len(dataPoints),
                            columns |-> headers])

ParseStockCSV_OneError(csvData, ticker) ==
    LET lines == Split(Trim(csvData), "\n")
        headers == LET cells == Split(lines[1], ",")
                   IN  [k \in DOMAIN cells |-> ToLowerCase(Trim(cells[k]))]
        columnMap == CreateColumnMap(headers)
        Values(i) == LET cells == Split(lines[i], ",")
                     IN  [k \in DOMAIN cells |-> Trim(cells[k])]
        Row(i) == IF Len(Values(i)) # Len(headers) THEN NoPoint
                  ELSE ParseDataRow(Values(i), columnMap)
        dataPoints == SortByDate(
            SelectSeq([i \in 1..(Len(lines) - 1) |-> Row(i + 1)],
                      LAMBDA p : p.point))
    IN  IF Len(lines) < 2 THEN Threw(ParseError)
        ELSE IF dataPoints = <<>> THEN Threw(ParseError)
        ELSE ReturnedValue([ticker |-> ToUpperCase(ticker),
                            dataPoints |-> dataPoints,
                            startDate |-> dataPoints[1].date,
                            endDate |-> dataPoints[Len(dataPoints)].date,
                            totalPoints |-> Len(dataPoints),
                            columns |-> headers])

\* CSVParser.parseStockCSV(csvData, ticker)
ParseStockCSV(csvData, ticker) ==
    LET lines == Split(Trim(csvData), "\n")
        headers == LET cells == Split(lines[1], ",")
                   IN  [k \in DOMAIN cells |-> ToLowerCase(Trim(cells[k]))]
        columnMap == CreateColumnMap(headers)
        Values(i) == LET cells == Split(lines[i], ",")
                     IN  [k \in DOMAIN cells |-> Trim(cells[k])]
        \* a row of another length than the header is skipped; a row that
        \* parseDataRow turns into null is not pushed
        Row(i) == IF Len(Values(i)) # Len(headers) THEN NoPoint
                  ELSE ParseDataRow(Values(i), columnMap)
        dataPoints == SortByDate(
            SelectSeq([i \in 1..(Len(lines) - 1) |-> Row(i + 1)],
                      LAMBDA p : p.point))
    IN  IF Len(lines) < 2 THEN Threw(ParseError)
        ELSE IF dataPoints = <<>> THEN Threw(DataError)
        ELSE ReturnedValue([ticker |-> ToUpperCase(ticker),
                            dataPoints |-> dataPoints,
                            startDate |-> dataPoints[1].date,
                            endDate |-> dataPoints[Len(dataPoints)].date,
                            totalPoints |-> Len(dataPoints),
                            columns |-> headers])

(***************************************************************************)
(* The CSV files parseStockCSV is applied to: a header line and data rows, *)
(* written out as text from the values they are meant to carry             *)
(***************************************************************************)
RECURSIVE NaturalText(_)
NaturalText(n) ==
    IF n < 10 THEN <<DigitChars[n + 1]>>
    ELSE NaturalText(n \div 10) \o <<DigitChars[(n % 10) + 1]>>

NumberText(n) == IF n < 0 THEN <<"-">> \o NaturalText(0 - n) ELSE NaturalText(n)

TwoDigits(n) == IF n < 10 THEN <<"0">> \o NaturalText(n) ELSE NaturalText(n)

\* a calendar day written as 2024-01-02 ("iso") or 2/1/2024 ("dmy"); "bad"
\* is a cell that holds no date
DateText(day, format) ==
    IF format = "iso"
    THEN NaturalText(day.y) \o <<"-">> \o TwoDigits(day.m) \o <<"-">> \o TwoDigits(day.d)
    ELSE IF format = "dmy"
    THEN NaturalText(day.d) \o <<"/">> \o NaturalText(day.m) \o <<"/">> \o NaturalText(day.y)
    ELSE <<"n", "/", "a">>

PriceText(price) == IF price.null THEN <<>> ELSE NumberText(price.value)

RECURSIVE Join(_, _)
Join(pieces, sep) ==
    IF pieces = <<>> THEN <<>>
    ELSE IF Len(pieces) = 1 THEN pieces[1]
    ELSE pieces[1] \o <<sep>> \o Join(Tail(pieces), sep)

Column(text, role, fill) == [text |-> text, role |-> role, fill |-> fill]

\* header lines: the plain one, the one of the 1.0.5 changelog with a
\* delisting_date column, and one without a column for the low
Layouts ==
    {<<Column(<<"D", "a", "t", "e">>, "date", <<>>), Column(<<"O", "p", "e", "n">>, "open", <<>>),
       Column(<<"H", "i", "g", "h">>, "high", <<>>), Column(<<"L", "o", "w">>, "low", <<>>),
       Column(<<"C", "l", "o", "s", "e">>, "close", <<>>)>>,
     <<Column(<<"d", "a", "t", "e">>, "date", <<>>),
       Column(<<"d", "e", "l", "i", "s", "t", "i", "n", "g", "_", "d", "a", "t", "e">>, "fill", <<"2", "0", "3", "0", "-", "0", "6", "-", "1", "5">>),
       Column(<<"o", "p", "e", "n">>, "open", <<>>), Column(<<"h", "i", "g", "h">>, "high", <<>>),
       Column(<<"l", "o", "w">>, "low", <<>>), Column(<<"c", "l", "o", "s", "e">>, "close", <<>>),
       Column(<<"v", "o", "l", "u", "m", "e">>, "fill", <<"7">>)>>,
     <<Column(<<"d", "a", "t", "e">>, "date", <<>>), Column(<<"o", "p", "e", "n">>, "open", <<>>),
       Column(<<"h", "i", "g", "h">>, "high", <<>>), Column(<<"c", "l", "o", "s", "e">>, "close", <<>>)>>}

RowText(layout, row) ==
    LET CellText(c) ==
            IF c.role = "date" THEN DateText(row.day, row.format)
            ELSE IF c.role = "fill" THEN c.fill
            ELSE PriceText(row[c.role])
        cells == [k \in DOMAIN layout |-> CellText(layout[k])]
    IN  Join(IF row.cells = "short" THEN SubSeq(cells, 1, Len(cells) - 1)
             ELSE IF row.cells = "long" THEN cells \o <<<<"x">>>>
             ELSE cells, ",")

\* the text of the file: every line ends with a newline
Render(layout, rows) ==
    Join(<<Join([k \in DOMAIN layout |-> layout[k].text], ",")>>
         \o [i \in DOMAIN rows |-> RowText(layout, rows[i])], "\n") \o <<"\n">>

MaxRows == 2

PriceCells == {NullNumber} \cup {NumberOf(n) : n \in 0..2}

Day(y, m, d) == [y |-> y, m |-> m, d |-> d]

\* the first data row of a file: any of the price cells in each column
FirstRows ==
    [day : {Day(2024, 1, 1)}, format : {"iso"},
     open : PriceCells, high : PriceCells, low : PriceCells,
     close : PriceCells, cells : {"exact"}]
    \cup [day : {Day(2024, 1, 2)}, format : {"dmy", "bad"},
           open : PriceCells, high : PriceCells, low : PriceCells,
           close : PriceCells, cells : {"exact"}]

\* the rows that may follow it: sound rows of an earlier, the same and a
\* later day, rows one cell short or long, and a row with negative prices
OtherRows ==
    LET Row(day, format, o, h, l, c, cells) ==
            [day |-> day, format |-> format, open |-> NumberOf(o),
             high |-> NumberOf(h), low |-> NumberOf(l), close |-> NumberOf(c),
             cells |-> cells]
    IN  {Row(Day(2023, 12, 31), "iso", 1, 2, 1, 2, "exact"),
         Row(Day(2024, 1, 2), "dmy", 2, 2, 2, 2, "exact"),
         Row(Day(2024, 1, 3), "iso", 1, 1, 1, 1, "exact"),
         Row(Day(2024, 1, 3), "iso", 1, 2, 1, 2, "short"),
         Row(Day(2024, 1, 3), "iso", 1, 2, 1, 2, "long"),
         Row(Day(2024, 1, 1), "iso", 0 - 1, 2, 0 - 1, 2, "exact")}

CsvInputs ==
    {[layout |-> <<>>, rows |-> <<>>, ticker |-> "bbca"]}
    \cup {[layout |-> l, rows |-> <<>>, ticker |-> "bbca"] : l \in Layouts}
    \cup {[layout |-> l, rows |-> <<f>> \o rest, ticker |-> "bbca"] :
            l \in Layouts, f \in FirstRows,
            rest \in UNION {[1..n -> OtherRows] : n \in 0..(MaxRows - 1)}}

NotApplied == [pc |-> "ready"]

\* a CSV file is at hand and parseStockCSV has not been applied to it yet
ParseInit ==
    /\ sources = InitializeDataSources
    /\ stats = [a \in Adapters |-> NewStats]
    /\ calls = [c \in 1..MaxCalls |-> IdleCall]
    /\ late = {}
    /\ wrappedDone = [a \in Adapters |-> 0]
    /\ nested = 0
    /\ mTickers = <<>>
    /\ mPc = "idle"
    /\ mChunk = 0
    /\ fetch = <<>>
    /\ mResults = {}
    /\ store = <<>>
    /\ now = 0
    /\ gets = <<>>
    /\ cache = [k \in CacheKeys |-> NoEntry]
    /\ hits = 0
    /\ misses = 0
    /\ gotten = 0
    /\ lastSet = [k \in CacheKeys |-> NothingSet]
    /\ cLast = NoOp
    /\ fnArg \in CsvInputs
    /\ fnRes = NotApplied

\* CSVParser.parseStockCSV(csvData, ticker)
Parse ==
    /\ fnRes = NotApplied
    /\ fnRes' = ParseStockCSV(Render(fnArg.layout, fnArg.rows), fnArg.ticker)
    /\ UNCHANGED <<fnArg, NotPure>>

ParseNext == Parse


(***************************************************************************)
(* The header lines createColumnMap is applied to                          *)
(***************************************************************************)
MaxHeaders == 3

\* header names: for each of date, open, high, low, close a name that is a
\* synonym of it and names that only contain one
HeaderTexts ==
    {<<"d", "a", "t", "e">>,
     <<"d", "e", "l", "i", "s", "t", "i", "n", "g", "_", "d", "a", "t", "e">>,
     <<"u", "p", "d", "a", "t", "e", "_", "t", "i", "m", "e">>,
     <<"o", "p", "e", "n">>,
     <<"o", "p", "e", "n", " ", "p", "r", "i", "c", "e">>,
     <<"o", "p", "e", "n", "_", "i", "n", "t", "e", "r", "e", "s", "t">>,
     <<"h", "i", "g", "h">>,
     <<"h", "i", "g", "h", "_", "5", "2", "w">>,
     <<"l", "o", "w">>,
     <<"l", "o", "w", "e", "s", "t">>,
     <<"c", "l", "o", "s", "e">>,
     <<"p", "r", "e", "v", "_", "c", "l", "o", "s", "e">>,
     <<"a", "d", "j", " ", "c", "l", "o", "s", "e">>,
     <<"v", "o", "l", "u", "m", "e">>}

\* the header line of the 1.0.5 changelog
ChangelogHeaders ==
    <<<<"d", "a", "t", "e">>,
      <<"d", "e", "l", "i", "s", "t", "i", "n", "g", "_", "d", "a", "t", "e">>,
      <<"o", "p", "e", "n">>,
      <<"h", "i", "g", "h">>,
      <<"l", "o", "w">>,
      <<"c", "l", "o", "s", "e">>,
      <<"v", "o", "l", "u", "m", "e">>>>

HeaderLists ==
    {ChangelogHeaders}
    \cup UNION {[1..n -> HeaderTexts] : n \in 1..MaxHeaders}

ColumnsInit ==
    /\ sources = InitializeDataSources
    /\ stats = [a \in Adapters |-> NewStats]
    /\ calls = [c \in 1..MaxCalls |-> IdleCall]
    /\ late = {}
    /\ wrappedDone = [a \in Adapters |-> 0]
    /\ nested = 0
    /\ mTickers = <<>>
    /\ mPc = "idle"
    /\ mChunk = 0
    /\ fetch = <<>>
    /\ mResults = {}
    /\ store = <<>>
    /\ now = 0
    /\ gets = <<>>
    /\ cache = [k \in CacheKeys |-> NoEntry]
    /\ hits = 0
    /\ misses = 0
    /\ gotten = 0
    /\ lastSet = [k \in CacheKeys |-> NothingSet]
    /\ cLast = NoOp
    /\ fnArg \in HeaderLists
    /\ fnRes = NotApplied

\* CSVParser.createColumnMap(headers)
MapColumns ==
    /\ fnRes = NotApplied
    /\ fnRes' = ReturnedValue(CreateColumnMap(fnArg))
    /\ UNCHANGED <<fnArg, NotPure>>

ColumnsNext == MapColumns


(***************************************************************************)
(* CSVParser.filterByDateRange and getDataForPeriod                        *)
(***************************************************************************)
\* an optional Date argument: left out, or given
NoDate == [given |-> FALSE, time |-> 0]

Given(t) == [given |-> TRUE, time |-> t]

FilterByDateRange_After(data, startDate, endDate) ==
    LET from == IF startDate.given
                THEN SelectSeq(data.dataPoints, LAMBDA p : p.date > startDate.time)
                ELSE data.dataPoints
    IN  IF endDate.given
        THEN SelectSeq(from, LAMBDA p : p.date <= endDate.time)
        ELSE from

\* filterByDateRange(data, startDate?, endDate?)
FilterByDateRange(data, startDate, endDate) ==
    LET from == IF startDate.given
                THEN SelectSeq(data.dataPoints, LAMBDA p : p.date >= startDate.time)
                ELSE data.dataPoints
    IN  IF endDate.given
        THEN SelectSeq(from, LAMBDA p : p.date <= endDate.time)
        ELSE from

\* the case labels of the switch over period.toLowerCase()
PeriodLabels ==
    [d1 |-> {<<"1", "d">>, <<"1", "d", "a", "y">>}, w1 |-> {<<"1", "w">>, <<"1", "w", "e", "e", "k">>},
     m1 |-> {<<"1", "m">>, <<"1", "m", "o", "n", "t", "h">>}, m3 |-> {<<"3", "m">>, <<"3", "m", "o", "n", "t", "h", "s">>},
     m6 |-> {<<"6", "m">>, <<"6", "m", "o", "n", "t", "h", "s">>}, y1 |-> {<<"1", "y">>, <<"1", "y", "e", "a", "r">>},
     y2 |-> {<<"2", "y">>, <<"2", "y", "e", "a", "r", "s">>}, y5 |-> {<<"5", "y">>, <<"5", "y", "e", "a", "r", "s">>}]

\* now.getTime(), for the clock reading year y, month m, day d, hour h
TimeOf(clock) == NewDate(clock.y, clock.m - 1, clock.d) + clock.h

\* the startDate of the switch, left out in the default case
StartDate(period, clock) ==
    LET label == ToLowerCase(period)
    IN  IF label \in PeriodLabels.d1 THEN Given(TimeOf(clock) - 24)
        ELSE IF label \in PeriodLabels.w1 THEN Given(TimeOf(clock) - 7 * 24)
        ELSE IF label \in PeriodLabels.m1
        THEN Given(NewDate(clock.y, clock.m - 1 - 1, clock.d))
        ELSE IF label \in PeriodLabels.m3
        THEN Given(NewDate(clock.y, clock.m - 1 - 3, clock.d))
        ELSE IF label \in PeriodLabels.m6
        THEN Given(NewDate(clock.y, clock.m - 1 - 6, clock.d))
        ELSE IF label \in PeriodLabels.y1
        THEN Given(NewDate(clock.y - 1, clock.m - 1, clock.d))
        ELSE IF label \in PeriodLabels.y2
        THEN Given(NewDate(clock.y - 2, clock.m - 1, clock.d))
        ELSE IF label \in PeriodLabels.y5
        THEN Given(NewDate(clock.y - 5, clock.m - 1, clock.d))
        ELSE NoDate

\* getDataForPeriod(data, period), new Date() reading clock
GetDataForPeriod(data, period, clock) ==
    IF StartDate(period, clock).given
    THEN FilterByDateRange(data, StartDate(period, clock), NoDate)
    ELSE data.dataPoints

MaxPoints == 3

\* readings of the clock: the last day of a month at noon, a midnight in
\* January, and a leap day
Clocks ==
    {[y |-> 2024, m |-> 3, d |-> 31, h |-> 12],
     [y |-> 2024, m |-> 1, d |-> 15, h |-> 0],
     [y |-> 2024, m |-> 2, d |-> 29, h |-> 9]}

\* days of the points: before, on and after the cutoffs of those readings
PointDays ==
    {Day(2018, 6, 1), Day(2019, 3, 31), Day(2023, 3, 1), Day(2023, 12, 15),
     Day(2024, 1, 8), Day(2024, 1, 14), Day(2024, 2, 28), Day(2024, 3, 2),
     Day(2024, 3, 30), Day(2024, 3, 31)}

PointAt(day) ==
    [point |-> TRUE, date |-> NewDate(day.y, day.m - 1, day.d), open |-> 1,
     high |-> 1, low |-> 1, close |-> 1, volume |-> 0,
     adjustedClose |-> NullNumber]

\* the series parseStockCSV returns: one point at least, ascending by date
SeriesOfPoints ==
    LET points == {PointAt(day) : day \in PointDays}
    IN  {s \in UNION {[1..n -> points] : n \in 1..MaxPoints} :
            \A i, j \in DOMAIN s : i < j => s[i].date <= s[j].date}

\* period arguments: the labels, spellings in upper case, and other texts
PeriodTexts ==
    UNION {PeriodLabels[k] : k \in DOMAIN PeriodLabels}
    \cup {<<"1", "D">>, <<"1", "Y">>, <<"3", "M">>, <<"m", "a", "x">>, <<"y", "t", "d">>, <<"1", "0", "y">>, <<>>}

SliceInit ==
    /\ sources = InitializeDataSources
    /\ stats = [a \in Adapters |-> NewStats]
    /\ calls = [c \in 1..MaxCalls |-> IdleCall]
    /\ late = {}
    /\ wrappedDone = [a \in Adapters |-> 0]
    /\ nested = 0
    /\ mTickers = <<>>
    /\ mPc = "idle"
    /\ mChunk = 0
    /\ fetch = <<>>
    /\ mResults = {}
    /\ store = <<>>
    /\ now = 0
    /\ gets = <<>>
    /\ cache = [k \in CacheKeys |-> NoEntry]
    /\ hits = 0
    /\ misses = 0
    /\ gotten = 0
    /\ lastSet = [k \in CacheKeys |-> NothingSet]
    /\ cLast = NoOp
    /\ fnArg \in [data : {[dataPoints |-> s] : s \in SeriesOfPoints},
                  period : PeriodTexts, clock : Clocks]
    /\ fnRes = NotApplied

\* CSVParser.getDataForPeriod(data, period)
Slice ==
    /\ fnRes = NotApplied
    /\ fnRes' = ReturnedValue(GetDataForPeriod(fnArg.data, fnArg.period, fnArg.clock))
    /\ UNCHANGED <<fnArg, NotPure>>

SliceNext == Slice


(***************************************************************************)
(* TechnicalAnalysis: the indicator arrays.  An entry is NaN or a number;  *)
(* of a number the model keeps the closes it was computed from, the close  *)
(* of a point being its position in the series, not its amount.  For the   *)
(* entries of the SMA and the RSI the amount is kept too, as an exact      *)
(* ratio of two integers (the rounding of floating point is left out); for *)
(* the entries of the EMA and the MACD it is kept as a decimal fraction.   *)
(***************************************************************************)
NaN == [nan |-> TRUE, from |-> {}]

Value(from) == [nan |-> FALSE, from |-> from]

\* an arithmetic expression over two entries: NaN as soon as one of them is
Combine(a, b) == IF a.nan \/ b.nan THEN NaN ELSE Value(a.from \cup b.from)

\* array[i] of a JavaScript array: undefined, which isNaN takes for NaN,
\* outside the array
At(array, i) == IF i \in DOMAIN array THEN array[i] ELSE NaN

\* the sum of the closes of data.slice(lo - 1, hi)
Closes(data, lo, hi) == Value({data[k].close : k \in lo..hi})

NaNs(count) == [i \in 1..count |-> NaN]

\* the number n / d, d not 0
Ratio(n, d) == [n |-> n, d |-> d]

Plus(a, b) == Ratio(a.n * b.d + b.n * a.d, a.d * b.d)

Minus(a, b) == Ratio(a.n * b.d - b.n * a.d, a.d * b.d)

Over(a, b) ==
    IF b.n >= 0 THEN Ratio(a.n * b.d, a.d * b.n)
    ELSE Ratio(0 - a.n * b.d, 0 - a.d * b.n)

\* a = b and a <= b, for denominators above 0
Same(a, b) == a.n * b.d = b.n * a.d

AtMost(a, b) == a.n * b.d <= b.n * a.d

\* an entry with its amount
Priced(entry, amount) ==
    [nan |-> entry.nan, from |-> entry.from, amount |-> amount]

\* data.slice(lo - 1, hi).reduce((acc, point) => acc + point.close, 0)
RECURSIVE SumCloses(_, _, _)
SumCloses(data, lo, hi) ==
    IF lo > hi THEN 0
    ELSE IF lo = hi THEN data[lo].close
    ELSE LET mid == (lo + hi) \div 2
         IN  SumCloses(data, lo, mid) + SumCloses(data, mid + 1, hi)

CalculateSMA_ShortWindow(data, period) ==
    [i \in 1..Len(data) |->
        IF i - 1 < period - 1 THEN NaN
        ELSE Priced(Closes(data, i - period + 1, i),
                    Ratio(SumCloses(data, i - period + 2, i), period))]

\* calculateSMA(data, period)
CalculateSMA(data, period) ==
    [i \in 1..Len(data) |->
        IF i - 1 < period - 1 THEN NaN
        ELSE Priced(Closes(data, i - period + 1, i),
                    Ratio(SumCloses(data, i - period + 1, i), period))]

\* the amounts of the EMA are kept to 1 / Precision, rounded down, in place
\* of the rounding of floating point
Precision == 100

Fixed(n) == Ratio(n * Precision, Precision)

Rounded(r) == Ratio((r.n * Precision) \div r.d, Precision)

\* (value - previous) * multiplier + previous, multiplier = 2 / (period + 1)
EmaStep(value, previous, period) ==
    Ratio(previous.n + (2 * (value.n - previous.n)) \div (period + 1), Precision)

\* the second loop of calculateEMA over the points lo..hi: each entry from
\* the close and the entry before, the entries up to the middle of lo..hi
\* made before those after it
RECURSIVE EmaOnward(_, _, _, _, _)
EmaOnward(data, period, ema, lo, hi) ==
    IF lo > hi THEN ema
    ELSE IF lo = hi
    THEN LET previous == ema[lo - 1]
             todayEMA == Priced(Combine(Closes(data, lo, lo), previous),
                                EmaStep(Fixed(data[lo].close), previous.amount, period))
         IN  Append(ema, todayEMA)
    ELSE LET mid == (lo + hi) \div 2
             lower == EmaOnward(data, period, ema, lo, mid)
         IN  IF Len(lower) = mid
             THEN EmaOnward(data, period, lower, mid + 1, hi)
             ELSE lower

\* calculateEMA(data, period): NaN up to the first period - 1 points, their
\* mean at point period, then each entry from the close and the entry before
CalculateEMA(data, period) ==
    IF Len(data) < period THEN NaNs(Len(data))
    ELSE EmaOnward(data, period,
                   NaNs(period - 1)
                   \o <<Priced(Closes(data, 1, period),
                               Rounded(Ratio(SumCloses(data, 1, period), period)))>>,
                   period + 1, Len(data))

\* calculateRSI(data, period): one entry for each change between two
\* neighbouring points, and a NaN put in front of them
RECURSIVE SumOf(_, _, _)
SumOf(values, lo, hi) ==
    IF lo > hi THEN 0 ELSE values[lo] + SumOf(values, lo + 1, hi)

\* the RSI of a window: 100 when the average loss is 0, else
\* 100 - (100 / (1 + avgGain / avgLoss))
RsiAmount(avgGain, avgLoss) ==
    IF avgLoss.n = 0 THEN Ratio(100, 1)
    ELSE Minus(Ratio(100, 1),
               Over(Ratio(100, 1), Plus(Ratio(1, 1), Over(avgGain, avgLoss))))

CalculateRSI_SignedLoss(data, period) ==
    LET changes == IF Len(data) = 0 THEN 0 ELSE Len(data) - 1
        change == [g \in 1..changes |-> data[g + 1].close - data[g].close]
        gains == [g \in 1..changes |-> IF change[g] > 0 THEN change[g] ELSE 0]
        losses == [g \in 1..changes |-> IF change[g] < 0 THEN change[g] ELSE 0]
        rsi == [g \in 1..changes |->
                   IF g - 1 < period - 1 THEN NaN
                   ELSE Priced(Closes(data, g - period + 1, g + 1),
                               RsiAmount(
                                   Ratio(SumOf(gains, g - period + 1, g), period),
                                   Ratio(SumOf(losses, g - period + 1, g), period)))]
    IN  <<NaN>> \o rsi

CalculateRSI(data, period) ==
    LET changes == IF Len(data) = 0 THEN 0 ELSE Len(data) - 1
        change == [g \in 1..changes |-> data[g + 1].close - data[g].close]
        gains == [g \in 1..changes |-> IF change[g] > 0 THEN change[g] ELSE 0]
        \* Math.abs(change) of a fall
        losses == [g \in 1..changes |-> IF change[g] < 0 THEN 0 - change[g] ELSE 0]
        rsi == [g \in 1..changes |->
                   IF g - 1 < period - 1 THEN NaN
                   ELSE Priced(Closes(data, g - period + 1, g + 1),
                               RsiAmount(
                                   Ratio(SumOf(gains, g - period + 1, g), period),
                                   Ratio(SumOf(losses, g - period + 1, g), period)))]
    IN  <<NaN>> \o rsi

\* the amounts of the numbers among values[lo..hi], added up
RECURSIVE SumAmounts(_, _, _)
SumAmounts(values, lo, hi) ==
    IF lo > hi THEN 0
    ELSE (IF values[lo].nan THEN 0 ELSE values[lo].amount.n)
         + SumAmounts(values, lo + 1, hi)

\* a slip: a NaN among the values is pushed as it is, and every entry after
\* it is NaN
RECURSIVE EmaOfValuesOnward_Propagate(_, _, _, _, _)
EmaOfValuesOnward_Propagate(values, period, ema, lo, hi) ==
    IF lo > hi THEN ema
    ELSE IF lo = hi
    THEN LET previous == ema[lo - 1]
             todayEMA ==
                 IF values[lo].nan \/ previous.nan THEN NaN
                 ELSE Priced(Combine(values[lo], previous),
                             EmaStep(values[lo].amount, previous.amount, period))
         IN  Append(ema, todayEMA)
    ELSE LET mid == (lo + hi) \div 2
             lower == EmaOfValuesOnward_Propagate(values, period, ema, lo, mid)
         IN  IF Len(lower) = mid
             THEN EmaOfValuesOnward_Propagate(values, period, lower, mid + 1, hi)
             ELSE lower

\* the last loop of calculateEMAFromValues over the values lo..hi: a
\* number moves the average, a NaN carries the entry before forward
RECURSIVE EmaOfValuesOnward(_, _, _, _, _)
EmaOfValuesOnward(values, period, ema, lo, hi) ==
    IF lo > hi THEN ema
    ELSE IF lo = hi
    THEN LET previous == ema[lo - 1]
             todayEMA ==
                 IF ~values[lo].nan
                 THEN Priced(Combine(values[lo], previous),
                             EmaStep(values[lo].amount, previous.amount, period))
                 ELSE previous
         IN  Append(ema, todayEMA)
    ELSE LET mid == (lo + hi) \div 2
             lower == EmaOfValuesOnward(values, period, ema, lo, mid)
         IN  IF Len(lower) = mid
             THEN EmaOfValuesOnward(values, period, lower, mid + 1, hi)
             ELSE lower

\* calculateEMAFromValues(values, period)
CalculateEMAFromValues(values, period) ==
    LET numbers == {i \in DOMAIN values : ~values[i].nan}
        \* startIndex + 1
        first == CHOOSE i \in numbers : \A j \in numbers : i <= j
        \* startIndex + period - 1 entries of NaN are pushed first
        filled == first - 1 + period - 1
        validValues == numbers \cap (first..(first + period - 1))
        initialSMA ==
            Priced(Value(UNION {values[k].from : k \in validValues}),
                   Ratio(SumAmounts(values, first, first + period - 1)
                             \div Cardinality(validValues), Precision))
    IN  IF numbers = {} THEN [i \in DOMAIN values |-> NaN]
        ELSE IF filled < Len(values)
        THEN EmaOfValuesOnward(values, period, NaNs(filled) \o <<initialSMA>>,
                               filled + 2, Len(values))
        ELSE NaNs(filled)

\* a - b of two entries: NaN as soon as one of them is
Difference(a, b) ==
    IF a.nan \/ b.nan THEN NaN
    ELSE Priced(Combine(a, b), Ratio(a.amount.n - b.amount.n, Precision))

CalculateMACD_SlowMinusFast(data, fastPeriod, slowPeriod, signalPeriod) ==
    LET fastEMA == CalculateEMA(data, fastPeriod)
        slowEMA == CalculateEMA(data, slowPeriod)
        macd == [i \in 1..Len(data) |-> Difference(slowEMA[i], fastEMA[i])]
        signal == CalculateEMAFromValues(macd, signalPeriod)
        histogram == [i \in 1..Len(macd) |-> Difference(macd[i], At(signal, i))]
    IN  [macd |-> macd, signal |-> signal, histogram |-> histogram]

\* the second half of calculateMACD: the signal line as the EMA of the MACD
\* line, and the histogram of the two
SignalAndHistogram(macd, signalPeriod) ==
    LET signal == CalculateEMAFromValues(macd, signalPeriod)
        histogram == [i \in 1..Len(macd) |-> Difference(macd[i], At(signal, i))]
    IN  [macd |-> macd, signal |-> signal, histogram |-> histogram]

\* calculateMACD(data, fastPeriod, slowPeriod, signalPeriod)
CalculateMACD(data, fastPeriod, slowPeriod, signalPeriod) ==
    LET fastEMA == CalculateEMA(data, fastPeriod)
        slowEMA == CalculateEMA(data, slowPeriod)
        macd == [i \in 1..Len(data) |-> Difference(fastEMA[i], slowEMA[i])]
    IN  SignalAndHistogram(macd, signalPeriod)

\* calculateBollingerBands(data, period, stdDev)
CalculateBollingerBands(data, period) ==
    LET sma == CalculateSMA(data, period)
        band == [i \in 1..Len(data) |->
                    IF i - 1 < period - 1 THEN NaN
                    ELSE Combine(sma[i], Closes(data, i - period + 1, i))]
    IN  [upper |-> band,
         middle |-> [i \in 1..Len(data) |->
                        IF i - 1 < period - 1 THEN NaN ELSE sma[i]],
         lower |-> band]

MaxLength == 34

\* the calls: each indicator with the periods the analysis uses and with
\* short ones
IndicatorCalls ==
    [indicator : {"sma"}, periods : {<<2>>, <<20>>}]
    \cup [indicator : {"ema"}, periods : {<<2>>, <<12>>}]
    \cup [indicator : {"rsi"}, periods : {<<2>>, <<14>>}]
    \cup [indicator : {"macd"}, periods : {<<2, 3, 3>>, <<12, 26, 9>>}]
    \cup [indicator : {"bollinger"}, periods : {<<2>>, <<20>>}]

IndicatorInit ==
    /\ sources = InitializeDataSources
    /\ stats = [a \in Adapters |-> NewStats]
    /\ calls = [c \in 1..MaxCalls |-> IdleCall]
    /\ late = {}
    /\ wrappedDone = [a \in Adapters |-> 0]
    /\ nested = 0
    /\ mTickers = <<>>
    /\ mPc = "idle"
    /\ mChunk = 0
    /\ fetch = <<>>
    /\ mResults = {}
    /\ store = <<>>
    /\ now = 0
    /\ gets = <<>>
    /\ cache = [k \in CacheKeys |-> NoEntry]
    /\ hits = 0
    /\ misses = 0
    /\ gotten = 0
    /\ lastSet = [k \in CacheKeys |-> NothingSet]
    /\ cLast = NoOp
    /\ fnArg \in [data : {[i \in 1..n |-> [close |-> i]] : n \in 0..MaxLength},
                  call : IndicatorCalls]
    /\ fnRes = NotApplied

Calculate(indicator, arrays) ==
    /\ fnRes = NotApplied
    /\ fnArg.call.indicator = indicator
    /\ fnRes' = ReturnedValue(arrays)
    /\ UNCHANGED <<fnArg, NotPure>>

SMA == Calculate("sma", [sma |-> CalculateSMA(fnArg.data, fnArg.call.periods[1])])

EMA == Calculate("ema", [ema |-> CalculateEMA(fnArg.data, fnArg.call.periods[1])])

RSI == Calculate("rsi", [rsi |-> CalculateRSI(fnArg.data, fnArg.call.periods[1])])

MACD ==
    Calculate("macd", CalculateMACD(fnArg.data, fnArg.call.periods[1],
                                    fnArg.call.periods[2], fnArg.call.periods[3]))

BollingerBands ==
    Calculate("bollinger", CalculateBollingerBands(fnArg.data, fnArg.call.periods[1]))

IndicatorNext == SMA \/ EMA \/ RSI \/ MACD \/ BollingerBands

MaxCloses == 4

\* closing prices, and the windows of the SMA and the RSI
CloseAmounts == {10, 20, 30, 40}

AmountsInit ==
    /\ sources = InitializeDataSources
    /\ stats = [a \in Adapters |-> NewStats]
    /\ calls = [c \in 1..MaxCalls |-> IdleCall]
    /\ late = {}
    /\ wrappedDone = [a \in Adapters |-> 0]
    /\ nested = 0
    /\ mTickers = <<>>
    /\ mPc = "idle"
    /\ mChunk = 0
    /\ fetch = <<>>
    /\ mResults = {}
    /\ store = <<>>
    /\ now = 0
    /\ gets = <<>>
    /\ cache = [k \in CacheKeys |-> NoEntry]
    /\ hits = 0
    /\ misses = 0
    /\ gotten = 0
    /\ lastSet = [k \in CacheKeys |-> NothingSet]
    /\ cLast = NoOp
    /\ fnArg \in [data : UNION {[1..n -> [close : CloseAmounts]] : n \in 0..MaxCloses},
                  call : [indicator : {"sma", "rsi"}, periods : {<<1>>, <<2>>, <<3>>}]]
    /\ fnRes = NotApplied

AmountsNext == SMA \/ RSI

(***************************************************************************)
(* TechnicalAnalysis.generateSummary: the signals of the SMA trend, the    *)
(* RSI and the MACD, each with its weight, and the summary made of them.   *)
(* Weights and fractions are exact ratios.                                 *)
(***************************************************************************)
\* a > b, for denominators above 0
More(a, b) == ~AtMost(a, b)

\* array[array.length - 1]
Last(array) == At(array, Len(array))

Signal(signal, weight) == [signal |-> signal, weight |-> weight]

\* the signals, were a neutral signal to carry the weight of its analysis
Signals_NominalNeutral(data, indicators) ==
    LET currentPrice == Ratio(data[Len(data)].close, 1)
        currentSMA20 == Last(indicators.sma[20])
        currentSMA50 == Last(indicators.sma[50])
        currentRSI == Last(indicators.rsi)
        currentMACD == Last(indicators.macd.macd)
        currentSignal == Last(indicators.macd.signal)
        trend ==
            IF ~currentSMA20.nan /\ ~currentSMA50.nan
            THEN IF /\ More(currentPrice, currentSMA20.amount)
                    /\ More(currentSMA20.amount, currentSMA50.amount)
                 THEN <<Signal("bullish", Ratio(3, 10))>>
                 ELSE IF /\ More(currentSMA20.amount, currentPrice)
                         /\ More(currentSMA50.amount, currentSMA20.amount)
                 THEN <<Signal("bearish", Ratio(3, 10))>>
                 ELSE <<Signal("neutral", Ratio(3, 10))>>
            ELSE <<>>
        momentum ==
            IF ~currentRSI.nan
            THEN IF More(currentRSI.amount, Ratio(70, 1))
                 THEN <<Signal("bearish", Ratio(1, 4))>>
                 ELSE IF More(Ratio(30, 1), currentRSI.amount)
                 THEN <<Signal("bullish", Ratio(1, 4))>>
                 ELSE <<Signal("neutral", Ratio(1, 4))>>
            ELSE <<>>
        crossing ==
            IF ~currentMACD.nan /\ ~currentSignal.nan
            THEN IF More(currentMACD.amount, currentSignal.amount)
                 THEN <<Signal("bullish", Ratio(1, 5))>>
                 ELSE <<Signal("bearish", Ratio(1, 5))>>
            ELSE <<>>
    IN  trend \o momentum \o crossing

\* the signals pushed by the three analyses, in their order
Signals(data, indicators) ==
    LET currentPrice == Ratio(data[Len(data)].close, 1)
        currentSMA20 == Last(indicators.sma[20])
        currentSMA50 == Last(indicators.sma[50])
        currentRSI == Last(indicators.rsi)
        currentMACD == Last(indicators.macd.macd)
        currentSignal == Last(indicators.macd.signal)
        trend ==
            IF ~currentSMA20.nan /\ ~currentSMA50.nan
            THEN IF /\ More(currentPrice, currentSMA20.amount)
                    /\ More(currentSMA20.amount, currentSMA50.amount)
                 THEN <<Signal("bullish", Ratio(3, 10))>>
                 ELSE IF /\ More(currentSMA20.amount, currentPrice)
                         /\ More(currentSMA50.amount, currentSMA20.amount)
                 THEN <<Signal("bearish", Ratio(3, 10))>>
                 ELSE <<Signal("neutral", Ratio(1, 10))>>
            ELSE <<>>
        momentum ==
            IF ~currentRSI.nan
            THEN IF More(currentRSI.amount, Ratio(70, 1))
                 THEN <<Signal("bearish", Ratio(1, 4))>>
                 ELSE IF More(Ratio(30, 1), currentRSI.amount)
                 THEN <<Signal("bullish", Ratio(1, 4))>>
                 ELSE <<Signal("neutral", Ratio(1, 10))>>
            ELSE <<>>
        crossing ==
            IF ~currentMACD.nan /\ ~currentSignal.nan
            THEN IF More(currentMACD.amount, currentSignal.amount)
                 THEN <<Signal("bullish", Ratio(1, 5))>>
                 ELSE <<Signal("bearish", Ratio(1, 5))>>
            ELSE <<>>
    IN  trend \o momentum \o crossing

\* the weights of the first count signals that are one of kinds, added up
RECURSIVE Score(_, _, _)
Score(signals, count, kinds) ==
    IF count = 0 THEN Ratio(0, 1)
    ELSE IF signals[count].signal \in kinds
    THEN Plus(Score(signals, count - 1, kinds), signals[count].weight)
    ELSE Score(signals, count - 1, kinds)

\* score / totalWeight: 0 / 0 is NaN
Fraction(score, totalWeight) ==
    IF totalWeight.n = 0 THEN [nan |-> TRUE, amount |-> Ratio(0, 1)]
    ELSE [nan |-> FALSE, amount |-> Over(score, totalWeight)]

\* percent > threshold: never of NaN
Exceeds(percent, threshold) == ~percent.nan /\ More(percent.amount, threshold)

Summary(trend, strength, recommendation, confidence) ==
    [trend |-> trend, strength |-> strength,
     recommendation |-> recommendation, confidence |-> confidence]

GenerateSummary_Majority(data, indicators) ==
    LET signals == Signals(data, indicators)
        totalWeight == Score(signals, Len(signals), {"bullish", "bearish", "neutral"})
        bullishPercent == Fraction(Score(signals, Len(signals), {"bullish"}), totalWeight)
        bearishPercent == Fraction(Score(signals, Len(signals), {"bearish"}), totalWeight)
    IN  IF Exceeds(bullishPercent, Ratio(1, 2))
        THEN Summary("bullish",
                     IF Exceeds(bullishPercent, Ratio(4, 5)) THEN "strong" ELSE "moderate",
                     "buy", bullishPercent.amount)
        ELSE IF Exceeds(bearishPercent, Ratio(1, 2))
        THEN Summary("bearish",
                     IF Exceeds(bearishPercent, Ratio(4, 5)) THEN "strong" ELSE "moderate",
                     "sell", bearishPercent.amount)
        ELSE Summary("neutral", "weak", "hold", Ratio(1, 2))

\* generateSummary(data, indicators)
GenerateSummary(data, indicators) ==
    LET signals == Signals(data, indicators)
        totalWeight == Score(signals, Len(signals), {"bullish", "bearish", "neutral"})
        bullishPercent == Fraction(Score(signals, Len(signals), {"bullish"}), totalWeight)
        bearishPercent == Fraction(Score(signals, Len(signals), {"bearish"}), totalWeight)
    IN  IF Exceeds(bullishPercent, Ratio(3, 5))
        THEN Summary("bullish",
                     IF Exceeds(bullishPercent, Ratio(4, 5)) THEN "strong" ELSE "moderate",
                     "buy", bullishPercent.amount)
        ELSE IF Exceeds(bearishPercent, Ratio(3, 5))
        THEN Summary("bearish",
                     IF Exceeds(bearishPercent, Ratio(4, 5)) THEN "strong" ELSE "moderate",
                     "sell", bearishPercent.amount)
        ELSE Summary("neutral", "weak", "hold", Ratio(1, 2))

\* the entries an array can end with: NaN or one of the amounts
Entries(amounts) == {NaN} \cup {Priced(Value({}), Ratio(a, 1)) : a \in amounts}

\* an array that ends with the entry, and the empty array, whose last
\* element is undefined
EndingWith(entries) == {<<>>} \cup {<<e>> : e \in entries}

SummaryInit ==

    /\ sources = InitializeDataSources
    /\ stats = [a \in Adapters |-> NewStats]
    /\ calls = [c \in 1..MaxCalls |-> IdleCall]
    /\ late = {}
    /\ wrappedDone = [a \in Adapters |-> 0]
    /\ nested = 0
    /\ mTickers = <<>>
    /\ mPc = "idle"
    /\ mChunk = 0
    /\ fetch = <<>>
    /\ mResults = {}
    /\ store = <<>>
    /\ now = 0
    /\ gets = <<>>
    /\ cache = [k \in CacheKeys |-> NoEntry]
    /\ hits = 0
    /\ misses = 0
    /\ gotten = 0
    /\ lastSet = [k \in CacheKeys |-> NothingSet]
    /\ cLast = NoOp
    /\ fnArg \in [data : {<<[close |-> p]>> : p \in {10, 20, 30}},
                  indicators :
                      [sma : [{20, 50} -> EndingWith(Entries({10, 20, 30}))],
                       rsi : EndingWith(Entries({20, 30, 50, 70, 80})),
                       macd : [macd : EndingWith(Entries({-1, 0, 1})),
                               signal : EndingWith(Entries({0}))]]]
    /\ fnRes = NotApplied

\* generateSummary(data, indicators)
Summarize ==
    /\ fnRes = NotApplied
    /\ fnRes' = ReturnedValue(GenerateSummary(fnArg.data, fnArg.indicators))
    /\ UNCHANGED <<fnArg, NotPure>>

SummaryNext == Summarize

(***************************************************************************)
(* TechnicalAnalysis.analyzeStock: the price analysis, the indicators and  *)
(* the summary of a series.  Of the volatility, a square root, the model   *)
(* keeps the closes it is computed from.                                   *)
(***************************************************************************)
\* Math.max(...values) and Math.min(...values) of a non-empty array
Highest(values) == CHOOSE v \in Range(values) : \A w \in Range(values) : w <= v

Lowest(values) == CHOOSE v \in Range(values) : \A w \in Range(values) : v <= w

\* data.slice(-count)
Recent(data, count) ==
    IF Len(data) <= count THEN data ELSE SubSeq(data, Len(data) - count + 1, Len(data))

\* calculateSupportResistance(data)
CalculateSupportResistance(data) ==
    LET recentData == Recent(data, 50)
    IN  [support |-> Lowest([i \in DOMAIN recentData |-> recentData[i].low]),
         resistance |-> Highest([i \in DOMAIN recentData |-> recentData[i].high])]

\* calculateVolatility(data): 0 of fewer than 2 points, else the annualized
\* deviation of the returns of the last 30 points
CalculateVolatility(data) ==
    IF Len(data) < 2 THEN Priced(Value({}), Ratio(0, 1))
    ELSE LET recentData == Recent(data, 30)
         IN  Closes(recentData, 1, Len(recentData))

\* volumes.slice(lo - 1, hi).reduce((sum, vol) => sum + vol, 0)
RECURSIVE SumVolumes(_, _, _)
SumVolumes(volumes, lo, hi) ==
    IF lo > hi THEN 0
    ELSE IF lo = hi THEN volumes[lo]
    ELSE LET mid == (lo + hi) \div 2
         IN  SumVolumes(volumes, lo, mid) + SumVolumes(volumes, mid + 1, hi)

\* the indicators analyzeStock computes, with the periods it passes and the
\* defaults of calculateRSI, calculateMACD and calculateBollingerBands
Indicators(data) ==
    [sma |-> [p \in {20, 50, 200} |-> CalculateSMA(data, p)],
     ema |-> [p \in {12, 26} |-> CalculateEMA(data, p)],
     rsi |-> CalculateRSI(data, 14),
     macd |-> CalculateMACD(data, 12, 26, 9),
     bollinger |-> CalculateBollingerBands(data, 20)]

Analysis(data, ticker, period) ==
    LET currentPoint == data[Len(data)]
        previousPoint == data[Len(data) - 1]
        priceChange == currentPoint.close - previousPoint.close
        volumes == SelectSeq([i \in DOMAIN data |-> data[i].volume], LAMBDA v : v > 0)
        indicators == Indicators(data)
        levels == CalculateSupportResistance(data)
    IN  [ticker |-> ticker,
         period |-> period,
         dataPoints |-> Len(data),
         priceAnalysis |->
             [currentPrice |-> currentPoint.close,
              priceChange |-> priceChange,
              priceChangePercent |-> Ratio(priceChange * 100, previousPoint.close),
              high52Week |-> Highest([i \in DOMAIN data |-> data[i].high]),
              low52Week |-> Lowest([i \in DOMAIN data |-> data[i].low]),
              averageVolume |->
                  IF Len(volumes) > 0
                  THEN Ratio(SumVolumes(volumes, 1, Len(volumes)), Len(volumes))
                  ELSE Ratio(0, 1)],
         technicalIndicators |->
             [sma |-> indicators.sma,
              ema |-> indicators.ema,
              rsi |-> indicators.rsi,
              macd |-> indicators.macd,
              bollinger |-> indicators.bollinger,
              support |-> levels.support,
              resistance |-> levels.resistance,
              volatility |-> CalculateVolatility(data)],
         summary |-> GenerateSummary(data, indicators)]

\* the guard taken away: of one point the point before is undefined
AnalyzeStock_Unguarded(data, ticker, period) ==
    IF Len(data) < 1 THEN Threw("Insufficient data for analysis")
    ELSE IF Len(data) < 2 THEN Threw("Cannot read properties of undefined")
    ELSE ReturnedValue(Analysis(data, ticker, period))

\* analyzeStock(data, ticker, period)
AnalyzeStock(data, ticker, period) ==
    IF Len(data) < 2 THEN Threw("Insufficient data for analysis")
    ELSE ReturnedValue(Analysis(data, ticker, period))

MaxDays == 6

TrendDays == 300

\* a point that closes at close
PointAtClose(close, volume) ==
    [close |-> close, high |-> close + 50, low |-> close - 50, volume |-> volume]

\* a series continued by the points lo..hi: each close is the close before
\* changed by the next of the rates, in thousandths, the rates taken in turn
RECURSIVE Grown(_, _, _, _, _)
Grown(series, lo, hi, rates, volume) ==
    IF lo > hi THEN series
    ELSE IF lo = hi
    THEN LET rate == rates[(lo % Len(rates)) + 1]
             close == (series[lo - 1].close * (1000 + rate)) \div 1000
         IN  Append(series, PointAtClose(close, volume))
    ELSE LET mid == (lo + hi) \div 2
             lower == Grown(series, lo, mid, rates, volume)
         IN  IF Len(lower) = mid THEN Grown(lower, mid + 1, hi, rates, volume) ELSE lower

SeriesOf(length, start, rates, volume) ==
    IF length = 0 THEN <<>>
    ELSE Grown(<<PointAtClose(start, volume)>>, 2, length, rates, volume)

\* the short series of every shape, and the long rising and falling ones
AnalysisInputs ==
    {SeriesOf(n, start, rates, volume) :
        n \in 0..MaxDays, start \in {100000, 200000},
        rates \in {<<5>>, <<0>>, <<-5>>, <<20, -20>>}, volume \in {0, 1000}}
    \cup {SeriesOf(TrendDays, 100000, rates, 1000) : rates \in {<<5>>, <<-5>>, <<20, -20>>}}

AnalysisInit ==

    /\ sources = InitializeDataSources
    /\ stats = [a \in Adapters |-> NewStats]
    /\ calls = [c \in 1..MaxCalls |-> IdleCall]
    /\ late = {}
    /\ wrappedDone = [a \in Adapters |-> 0]
    /\ nested = 0
    /\ mTickers = <<>>
    /\ mPc = "idle"
    /\ mChunk = 0
    /\ fetch = <<>>
    /\ mResults = {}
    /\ store = <<>>
    /\ now = 0
    /\ gets = <<>>
    /\ cache = [k \in CacheKeys |-> NoEntry]
    /\ hits = 0
    /\ misses = 0
    /\ gotten = 0
    /\ lastSet = [k \in CacheKeys |-> NothingSet]
    /\ cLast = NoOp
    /\ fnArg \in [data : AnalysisInputs, ticker : {"BBCA"}, period : {"1y"}]
    /\ fnRes = NotApplied

\* TechnicalAnalysis.analyzeStock(data, ticker, period)
Analyze ==
    /\ fnRes = NotApplied
    /\ fnRes' = AnalyzeStock(fnArg.data, fnArg.ticker, fnArg.period)
    /\ UNCHANGED <<fnArg, NotPure>>

AnalysisNext == Analyze

(***************************************************************************)
(* IDXMCPServer: the handlers of the tools.  One call of a handler is a    *)
(* function of its arguments and of what its collaborators answer: the     *)
(* cache (a hit, a miss or an exception), the coordinator (a result or     *)
(* null).  The response times are left out.                                *)
(***************************************************************************)
UpperChar(c) ==
    IF c \in Range(LowerChars)
    THEN UpperChars[CHOOSE i \in DOMAIN LowerChars : LowerChars[i] = c]
    ELSE c

\* String.prototype.toUpperCase of a text
UpperText(text) == [i \in DOMAIN text |-> UpperChar(text[i])]

\* text.replace(/\s+/g, '_'): each run of white space becomes one '_'
Underscored(text) ==
    LET kept == SelectSeq([i \in DOMAIN text |-> i],
                          LAMBDA i : ~IsSpace(text[i]) \/ i = 1 \/ ~IsSpace(text[i - 1]))
    IN  [k \in DOMAIN kept |-> IF IsSpace(text[kept[k]]) THEN "_" ELSE text[kept[k]]]

\* a text made of a literal and of the value put behind it
Message(text, about) == [text |-> text, about |-> about]

\* String(error) of an Error with the message
StringOfError(message) == Message("Error: ", message)

SuccessResponse(data, source) == [success |-> TRUE, data |-> data, source |-> source]

FailureResponse(error) == [success |-> FALSE, error |-> error]

\* what the handler returns, and what it stored in the cache
NoSet == [set |-> FALSE]

CacheWrite(key, value, ttl) == [set |-> TRUE, key |-> key, value |-> value, ttl |-> ttl]

Reply(response, cacheSet) == [response |-> response, cacheSet |-> cacheSet]

\* the catch block of a handler
Caught(message) == Reply(FailureResponse(StringOfError(message)), NoSet)

\* the body the four lookup handlers share: the cache first, then the
\* coordinator, whose null is answered with the handler's own text
Lookup(cacheKey, ttl, notFound, env) ==
    IF env.thrown = "get" THEN Caught(env.message)
    ELSE IF Truthy(env.cached) THEN Reply(SuccessResponse(env.cached, "cache"), NoSet)
    ELSE IF ~Truthy(env.tried) THEN Reply(FailureResponse(notFound), NoSet)
    ELSE IF env.thrown = "set" THEN Caught(env.message)
    ELSE Reply(SuccessResponse(env.tried, "live"), CacheWrite(cacheKey, env.tried, ttl))

\* handleMarketOverview()
HandleMarketOverview(env) ==
    Lookup(Message("market:overview", <<>>), "marketOverview",
           Message("Market overview data not available", <<>>), env)

\* handleStockInfo(ticker)
HandleStockInfo(ticker, env) ==
    LET cleanTicker == Trim(UpperText(ticker))
    IN  Lookup(Message("stock:info:", UpperText(cleanTicker)), "stockInfo",
               Message("Stock information not found for ticker: ", cleanTicker), env)

\* handleHistoricalData(ticker, period)
HandleHistoricalData(ticker, period, env) ==
    LET cleanTicker == Trim(UpperText(ticker))
    IN  Lookup(Message("stock:historical:", UpperText(cleanTicker) \o <<":">> \o period),
               "historical",
               Message("Historical data not found for ticker: ", cleanTicker), env)

\* handleSectorPerformance()
HandleSectorPerformance(env) ==
    Lookup(Message("sector:performance", <<>>), "sector",
           Message("Sector performance data not available", <<>>), env)

\* DataSourceManager.searchStocks(query): results || []
SearchStocks(tried) == IF Truthy(tried) THEN tried ELSE List("none", 0)

\* handleSearchStocks(query)
HandleSearchStocks(query, env) ==
    LET cleanQuery == Trim(query)
        searchResults == SearchStocks(env.tried)
        result == [query |-> cleanQuery, results |-> searchResults,
                   resultCount |-> searchResults.n]
    IN  IF Len(cleanQuery) < 2
        THEN Reply(FailureResponse(Message("Search query must be at least 2 characters", <<>>)),
                   NoSet)
        ELSE IF env.thrown = "get" THEN Caught(env.message)
        ELSE IF Truthy(env.cached) THEN Reply(SuccessResponse(env.cached, "cache"), NoSet)
        ELSE IF env.thrown = "set" THEN Caught(env.message)
        ELSE Reply(SuccessResponse(result, "live"),
                   CacheWrite(Message("search:", Underscored(ToLowerCase(cleanQuery))),
                              result, "stockInfo"))

(***************************************************************************)
(* IDXMCPServer.handleCompareStocks: comparisonData is what                *)
(* getMultipleStocksData answered, the entries in the order of             *)
(* Object.entries.                                                         *)
(***************************************************************************)
\* the performance of one entry of comparisonData; null of an empty series
Comparison(entry) ==
    LET periodData == entry.data.dataPoints
        startPrice == periodData[1].close
        endPrice == periodData[Len(periodData)].close
        volumes == SelectSeq([i \in DOMAIN periodData |-> periodData[i].volume],
                             LAMBDA v : v > 0)
    IN  [ticker |-> entry.ticker,
         performance |->
             [startPrice |-> startPrice,
              endPrice |-> endPrice,
              returnPercent |-> Ratio((endPrice - startPrice) * 100, startPrice),
              highestPrice |-> Highest([i \in DOMAIN periodData |-> periodData[i].high]),
              lowestPrice |-> Lowest([i \in DOMAIN periodData |-> periodData[i].low]),
              averageVolume |->
                  IF Len(volumes) > 0
                  THEN Ratio(SumVolumes(volumes, 1, Len(volumes)), Len(volumes))
                  ELSE Ratio(0, 1)],
         dataPoints |-> Len(periodData)]

\* comparisons.reduce((best, current) => current > best ? current : best)
\* over the first count comparisons
RECURSIVE BestPerformer(_, _)
BestPerformer(comparisons, count) ==
    IF count = 1 THEN comparisons[1]
    ELSE LET best == BestPerformer(comparisons, count - 1)
             current == comparisons[count]
         IN  IF More(current.performance.returnPercent, best.performance.returnPercent)
             THEN current ELSE best

\* comparisons.reduce((worst, current) => current < worst ? current : worst)
RECURSIVE WorstPerformer(_, _)
WorstPerformer(comparisons, count) ==
    IF count = 1 THEN comparisons[1]
    ELSE LET worst == WorstPerformer(comparisons, count - 1)
             current == comparisons[count]
         IN  IF More(worst.performance.returnPercent, current.performance.returnPercent)
             THEN current ELSE worst

\* handleCompareStocks(tickers, period)
HandleCompareStocks(tickers, period, env) ==
    IF Len(tickers) < 2
    THEN Caught(<<"At least 2 ticker symbols are required for comparison">>)
    ELSE IF Len(tickers) > 5
    THEN Caught(<<"Maximum 5 stocks can be compared at once">>)
    ELSE IF env.thrown = "import" THEN Caught(env.message)
    ELSE LET filled == SelectSeq(env.comparisonData,
                                 LAMBDA entry : Len(entry.data.dataPoints) # 0)
             comparisons == [i \in DOMAIN filled |-> Comparison(filled[i])]
             result ==
                 [period |-> period,
                  comparisons |-> comparisons,
                  summary |->
                      [bestPerformer |-> BestPerformer(comparisons, Len(comparisons)),
                       worstPerformer |-> WorstPerformer(comparisons, Len(comparisons))]]
         IN  IF Len(comparisons) = 0
             THEN Caught(<<"Reduce of empty array with no initial value">>)
             ELSE Reply(SuccessResponse(result, "live"), NoSet)

\* a point of a file of the dataset
PricedPoint(day, close, volume) ==
    [point |-> TRUE, date |-> NewDate(day.y, day.m - 1, day.d), open |-> close,
     high |-> close + 5, low |-> close - 5, close |-> close, volume |-> volume,
     adjustedClose |-> NullNumber]

\* the files of three tickers: each holds all the points of the ticker
StoredSeries(ticker) ==
    CASE ticker = "BBCA" ->
            <<PricedPoint(Day(2019, 3, 31), 80, 10), PricedPoint(Day(2023, 12, 15), 100, 0),
              PricedPoint(Day(2024, 3, 2), 120, 30), PricedPoint(Day(2024, 3, 30), 150, 20)>>
      [] ticker = "BBRI" ->
            <<PricedPoint(Day(2024, 1, 8), 200, 40), PricedPoint(Day(2024, 3, 30), 180, 40)>>
      [] OTHER ->
            <<PricedPoint(Day(2024, 3, 2), 50, 0), PricedPoint(Day(2024, 3, 31), 50, 0)>>

\* getMultipleStocksData(tickers, ...) when the files of the tickers in
\* loaded could be read
ComparisonData(tickers, loaded) ==
    LET read == SelectSeq(tickers, LAMBDA t : t \in loaded)
    IN  [i \in DOMAIN read |->
            [ticker |-> read[i],
             data |-> [ticker |-> read[i], dataPoints |-> StoredSeries(read[i])]]]

CompareCalls ==
    {[name |-> "compare_stocks",
      args |-> [tickers |-> tickers, period |-> period],
      env |-> [comparisonData |-> ComparisonData(tickers, loaded), clock |-> clock,
               thrown |-> thrown, message |-> <<"d", "o", "w", "n">>]] :
        tickers \in {<<"BBCA">>, <<"BBCA", "BBRI">>, <<"BBRI", "BBCA">>,
                     <<"BMRI", "BBCA", "BBRI">>,
                     <<"BBCA", "BBRI", "BMRI", "TLKM", "ASII", "UNVR">>},
        period \in {<<"1", "m">>, <<"1", "y">>, <<"2", "y">>, <<"5", "y">>},
        loaded \in SUBSET {"BBCA", "BBRI", "BMRI"},
        clock \in {[y |-> 2024, m |-> 3, d |-> 31, h |-> 12],
                   [y |-> 2024, m |-> 4, d |-> 1, h |-> 9]},
        thrown \in {"none", "import"}}

\* what the collaborators answer to a lookup handler and to the search
LookupAnswers ==
    [cached : {Null, Val("github")},
     tried : {Null} \cup {Val(a) : a \in Adapters},
     thrown : {"none", "get", "set"},
     message : {<<"d", "o", "w", "n">>}]

SearchAnswers ==
    [cached : {Null, Val("github")},
     tried : {Null} \cup {List(a, k) : a \in Adapters, k \in {0, 2}},
     thrown : {"none", "get", "set"},
     message : {<<"d", "o", "w", "n">>}]

TickerTexts == {<<"b", "b", "c", "a">>, <<" ", "T", "L", "K", "M", " ">>}

QueryTexts == {<<"b">>, <<" ", "b", " ">>, <<"b", "c">>, <<"B", "k", " ", " ", "c">>}

ToolCalls ==
    [name : {"get_market_overview", "get_sector_performance"}, args : {<<>>},
     env : LookupAnswers]
    \cup [name : {"get_stock_info"}, args : [ticker : TickerTexts], env : LookupAnswers]
    \cup [name : {"get_historical_data"},
          args : [ticker : TickerTexts, period : {<<"1", "y">>, <<"1", "m">>}],
          env : LookupAnswers]
    \cup [name : {"search_stocks"}, args : [query : QueryTexts], env : SearchAnswers]
    \cup CompareCalls

ServerInit ==

    /\ sources = InitializeDataSources
    /\ stats = [a \in Adapters |-> NewStats]
    /\ calls = [c \in 1..MaxCalls |-> IdleCall]
    /\ late = {}
    /\ wrappedDone = [a \in Adapters |-> 0]
    /\ nested = 0
    /\ mTickers = <<>>
    /\ mPc = "idle"
    /\ mChunk = 0
    /\ fetch = <<>>
    /\ mResults = {}
    /\ store = <<>>
    /\ now = 0
    /\ gets = <<>>
    /\ cache = [k \in CacheKeys |-> NoEntry]
    /\ hits = 0
    /\ misses = 0
    /\ gotten = 0
    /\ lastSet = [k \in CacheKeys |-> NothingSet]
    /\ cLast = NoOp
    /\ fnArg \in ToolCalls
    /\ fnRes = NotApplied

\* the handler of CallToolRequestSchema: the case of the tool name
CallTool(name, reply) ==
    /\ fnRes = NotApplied
    /\ fnArg.name = name
    /\ fnRes' = ReturnedValue(reply)
    /\ UNCHANGED <<fnArg, NotPure>>

MarketOverviewTool == CallTool("get_market_overview", HandleMarketOverview(fnArg.env))

StockInfoTool == CallTool("get_stock_info", HandleStockInfo(fnArg.args.ticker, fnArg.env))

HistoricalDataTool ==
    CallTool("get_historical_data",
             HandleHistoricalData(fnArg.args.ticker, fnArg.args.period, fnArg.env))

SectorPerformanceTool ==
    CallTool("get_sector_performance", HandleSectorPerformance(fnArg.env))

SearchStocksTool ==
    CallTool("search_stocks", HandleSearchStocks(fnArg.args.query, fnArg.env))

CompareStocksTool ==
    CallTool("compare_stocks",
             HandleCompareStocks(fnArg.args.tickers, fnArg.args.period, fnArg.env))

ServerNext ==
    \/ MarketOverviewTool
    \/ StockInfoTool
    \/ HistoricalDataTool
    \/ SectorPerformanceTool
    \/ SearchStocksTool
    \/ CompareStocksTool

(***************************************************************************)
(* DataSourceManager.addSource on a new manager: adapters are registered   *)
(* one after the other, each instance once.                                *)
(***************************************************************************)
\* the adapters that can be registered
Registrable == Adapters \cup {"mirror", "backup", "archive"}

RegisterInit ==
    /\ sources = <<>>

    /\ stats = [a \in Adapters |-> NewStats]
    /\ calls = [c \in 1..MaxCalls |-> IdleCall]
    /\ late = {}
    /\ wrappedDone = [a \in Adapters |-> 0]
    /\ nested = 0
    /\ mTickers = <<>>
    /\ mPc = "idle"
    /\ mChunk = 0
    /\ fetch = <<>>
    /\ mResults = {}
    /\ store = <<>>
    /\ now = 0
    /\ gets = <<>>
    /\ cache = [k \in CacheKeys |-> NoEntry]
    /\ hits = 0
    /\ misses = 0
    /\ gotten = 0
    /\ lastSet = [k \in CacheKeys |-> NothingSet]
    /\ cLast = NoOp
    /\ fnArg = <<>>
    /\ fnRes = NotApplied

\* dataSourceManager.addSource(source)
Register(a) ==
    /\ a \notin Range(sources)
    /\ sources' = AddSource(sources, a)
    /\ UNCHANGED <<stats, calls, late, wrappedDone, nested>>
    /\ UNCHANGED <<multiVars, seriesVars, cacheVars, pureVars>>

RegisterNext == \E a \in Registrable : Register(a)

(***************************************************************************)
(* DataSource.makeRequest called over and over on one adapter, and the     *)
(* outcomes of its last HealthWindow requests, which the adapter itself    *)
(* does not keep.                                                          *)
(***************************************************************************)
MaxRequests == 21

\* array.slice(-count)
LastRequests(outcomes) ==
    IF Len(outcomes) <= HealthWindow THEN outcomes
    ELSE SubSeq(outcomes, Len(outcomes) - HealthWindow + 1, Len(outcomes))

HealthInit ==

    /\ sources = InitializeDataSources
    /\ stats = [a \in Adapters |-> NewStats]
    /\ calls = [c \in 1..MaxCalls |-> IdleCall]
    /\ late = {}
    /\ wrappedDone = [a \in Adapters |-> 0]
    /\ nested = 0
    /\ mTickers = <<>>
    /\ mPc = "idle"
    /\ mChunk = 0
    /\ fetch = <<>>
    /\ mResults = {}
    /\ store = <<>>
    /\ now = 0
    /\ gets = <<>>
    /\ cache = [k \in CacheKeys |-> NoEntry]
    /\ hits = 0
    /\ misses = 0
    /\ gotten = 0
    /\ lastSet = [k \in CacheKeys |-> NothingSet]
    /\ cLast = NoOp
    /\ fnArg = <<>>
    /\ fnRes = NotApplied

\* one call of a wrapped capability of the adapter; fnArg records whether
\* it succeeded
WrappedCall(a, outcome) ==
    /\ stats[a].successCount + stats[a].errorCount < MaxRequests
    /\ stats' = [stats EXCEPT ![a] = MakeRequest(stats[a], a, "stockInfo", outcome).stats]
    /\ wrappedDone' = [wrappedDone EXCEPT ![a] = @ + 1]
    /\ fnArg' = LastRequests(Append(fnArg, outcome = "value"))
    /\ UNCHANGED <<sources, calls, late, nested, fnRes>>
    /\ UNCHANGED <<multiVars, seriesVars, cacheVars>>

HealthNext == \E outcome \in {"value", "throw", "timeout"} : WrappedCall("yahoo", outcome)

(***************************************************************************)
(* The signal line of calculateMACD over MACD lines of every shape: NaN    *)
(* entries in front, among and behind the numbers.                         *)
(***************************************************************************)
MaxValues == 5

\* amounts of the MACD line, in 1 / Precision
MacdAmounts == {0 - 150, 0, 250}

\* the MACD lines of n entries whose numbers stand at the given places:
\* entry i is NaN, or a number made from point i
LinesWith(n, numbers) ==
    {[i \in 1..n |->
         IF i \in numbers THEN Priced(Value({i}), Ratio(amounts[i], Precision))
         ELSE NaN] : amounts \in [numbers -> MacdAmounts]}

MacdLines ==
    UNION {UNION {LinesWith(n, numbers) : numbers \in SUBSET (1..n)} :
           n \in 0..MaxValues}

SignalInit ==
    /\ sources = InitializeDataSources
    /\ stats = [a \in Adapters |-> NewStats]
    /\ calls = [c \in 1..MaxCalls |-> IdleCall]
    /\ late = {}
    /\ wrappedDone = [a \in Adapters |-> 0]
    /\ nested = 0
    /\ mTickers = <<>>
    /\ mPc = "idle"
    /\ mChunk = 0
    /\ fetch = <<>>
    /\ mResults = {}
    /\ store = <<>>
    /\ now = 0
    /\ gets = <<>>
    /\ cache = [k \in CacheKeys |-> NoEntry]
    /\ hits = 0
    /\ misses = 0
    /\ gotten = 0
    /\ lastSet = [k \in CacheKeys |-> NothingSet]
    /\ cLast = NoOp
    /\ fnArg \in [macd : MacdLines, signalPeriod : 1..3]
    /\ fnRes = NotApplied

\* the signal line and the histogram are made of the MACD line
SignalLine ==
    /\ fnRes = NotApplied
    /\ fnRes' = ReturnedValue(SignalAndHistogram(fnArg.macd, fnArg.signalPeriod))
    /\ UNCHANGED <<fnArg, NotPure>>

SignalNext == SignalLine

(***************************************************************************)
(* Coordinator invocations that overlap: a second call begins while the    *)
(* first waits for an adapter.  The callers ask for a stock's information  *)
(* or its historical series.                                               *)
(***************************************************************************)
\* coordinator invocations in progress at the same time
MaxOverlap == 2

OverlapCaps == {"stockInfo", "historicalSeries"}

\* every adapter is fresh or one failure short of unhealthy
OverlapInit ==
    /\ sources = InitializeDataSources
    /\ \E h \in [Adapters -> {0, HealthWindow \div 2}] :
          stats = [a \in Adapters |-> Replay(NewStats, 0, h[a])]
    /\ calls = [c \in 1..MaxOverlap |-> IdleCall]
    /\ late = {}
    /\ wrappedDone = [a \in Adapters |-> stats[a].successCount + stats[a].errorCount]
    /\ nested = 0
    /\ mTickers = <<>>
    /\ mPc = "idle"
    /\ mChunk = 0
    /\ fetch = <<>>
    /\ mResults = {}
    /\ store = <<>>
    /\ now = 0
    /\ gets = <<>>
    /\ cache = <<>>
    /\ hits = 0
    /\ misses = 0
    /\ gotten = 0
    /\ lastSet = <<>>
    /\ cLast = <<>>
    /\ fnArg = <<>>
    /\ fnRes = "none"

OverlapNext ==
    \/ \E c \in 1..MaxOverlap : Return(c)
    \/ \E c \in 1..MaxOverlap, cap \in OverlapCaps : CallCapability(c, cap)
    \/ \E c \in 1..MaxOverlap,
          outcome \in {"value", "null", "throw"} : OpSettles(c, outcome)
    \/ \E c \in 1..MaxOverlap : TimerFires(c)
    \/ \E x \in late, success \in BOOLEAN : LateOpCompletes(x, success)
    \/ \E x \in late : LateTimerFires(x)

(***************************************************************************)
(* getMultipleStocksData over getStockData: each call of a chunk runs its  *)
(* own cache check, download and pair of writes on the durable records.    *)
(***************************************************************************)
\* longest tickers argument when the calls of a chunk are followed one by one
MaxBatch == 2

BatchTickers == Tickers \cup SameTickers

\* the options of a call; with the record ages of BatchInit every cacheTTL
\* of TTLs draws the same line between fresh and expired
BatchOptions == [useCache : BOOLEAN, cacheTTL : {1}, forceRefresh : BOOLEAN]

\* a slip: a ticker that stands earlier in the chunk (in any letter case)
\* is not asked for again
BatchGets_Deduplicated(tickers, k, options, before) ==
    [i \in DOMAIN before |->
        IF i \in ChunkMembers(tickers, k)
           /\ \A j \in ChunkMembers(tickers, k) :
                 j < i => ToUpperCase(tickers[j]) # ToUpperCase(tickers[i])
        THEN [IdleGet EXCEPT
                 !.pc = IF ChecksCache(options.useCache, options.forceRefresh)
                        THEN "stat" ELSE "download",
                 !.ticker = ToUpperCase(tickers[i]),
                 !.useCache = options.useCache,
                 !.forceRefresh = options.forceRefresh,
                 !.cacheTTL = options.cacheTTL]
        ELSE before[i]]

\* chunk.map(async ticker => ... await this.getStockData(ticker, options)):
\* one getStockData call for every position of chunk k, each run up to its
\* first await
BatchGets(tickers, k, options, before) ==
    [i \in DOMAIN before |->
        IF i \in ChunkMembers(tickers, k)
        THEN [IdleGet EXCEPT
                 !.pc = IF ChecksCache(options.useCache, options.forceRefresh)
                        THEN "stat" ELSE "download",
                 !.ticker = ToUpperCase(tickers[i]),
                 !.useCache = options.useCache,
                 !.forceRefresh = options.forceRefresh,
                 !.cacheTTL = options.cacheTTL,
                 !.overlap = \E j \in ChunkMembers(tickers, k) :
                                j # i /\ ToUpperCase(tickers[j]) = ToUpperCase(tickers[i])]
        ELSE before[i]]

\* the options of a running call, which every getStockData call of it was given
OptionsOf(get) ==
    [useCache |-> get.useCache, cacheTTL |-> get.cacheTTL,
     forceRefresh |-> get.forceRefresh]

\* a process with the files earlier runs have left behind, written just now
\* or MaxTime seconds ago; the clock stands still while the call runs
BatchInit ==
    /\ sources = InitializeDataSources
    /\ stats = [a \in Adapters |-> NewStats]
    /\ calls = [c \in 1..MaxCalls |-> IdleCall]
    /\ late = {}
    /\ wrappedDone = [a \in Adapters |-> 0]
    /\ nested = 0
    /\ mTickers = <<>>
    /\ mPc = "idle"
    /\ mChunk = 0
    /\ fetch = <<>>
    /\ mResults = {}
    /\ store \in {f \in [Keys -> {NoRecord, Record(0)}] : f["TLKM"] = Record(0)}
    /\ now \in {0, MaxTime}
    /\ gets = [g \in 1..MaxBatch |-> IdleGet]
    /\ cache = <<>>
    /\ hits = 0
    /\ misses = 0
    /\ gotten = 0
    /\ lastSet = <<>>
    /\ cLast = <<>>
    /\ fnArg = <<>>
    /\ fnRes = "none"

\* getMultipleStocksData(tickers, options) is called: the chunks are formed
\* and the getStockData calls of the first chunk start
BatchCall(tickers, options) ==
    /\ mPc = "idle"
    /\ mTickers' = tickers
    /\ mResults' = {}
    /\ IF Len(Chunks(tickers)) = 0
       THEN /\ mPc' = "done"
            /\ mChunk' = 0
            /\ fetch' = <<>>
            /\ gets' = gets
       ELSE /\ mPc' = "running"
            /\ mChunk' = 1
            /\ fetch' = StartChunk([i \in 1..Len(tickers) |-> "notStarted"],
                                   tickers, 1)
            /\ gets' = BatchGets(tickers, 1, options, gets)
    /\ UNCHANGED <<store, now>>
    /\ UNCHANGED <<coordVars, cacheVars, pureVars>>

\* the getStockData call of position i has resolved or rejected and the
\* function mapped over the chunk goes on: results[ticker.toUpperCase()] =
\* data, or the error is logged; after the last call of the chunk
\* Promise.all resolves and the next chunk starts or the results are returned
BatchSettles(i) ==
    /\ mPc = "running"
    /\ i \in DOMAIN fetch
    /\ fetch[i] = "running"
    /\ gets[i].pc \in {"done", "failed"}
    /\ LET ok == gets[i].pc = "done"
           status == PerTicker(ok)
           settled == [fetch EXCEPT ![i] = status]
           picked == [gets EXCEPT ![i].pc = "returned"]
       IN  /\ mResults' = IF ok THEN mResults \cup {ToUpperCase(mTickers[i])}
                           ELSE mResults
           /\ IF status = "rejected"
              THEN /\ mPc' = "rejected"
                   /\ fetch' = settled
                   /\ mChunk' = mChunk
                   /\ gets' = picked
              ELSE IF \E j \in DOMAIN settled : settled[j] = "running"
              THEN /\ mPc' = "running"
                   /\ fetch' = settled
                   /\ mChunk' = mChunk
                   /\ gets' = picked
              ELSE IF mChunk < Len(Chunks(mTickers))
              THEN /\ mPc' = "running"
                   /\ fetch' = StartChunk(settled, mTickers, mChunk + 1)
                   /\ mChunk' = mChunk + 1
                   /\ gets' = BatchGets(mTickers, mChunk + 1, OptionsOf(gets[i]), picked)
              ELSE /\ mPc' = "done"
                   /\ fetch' = settled
                   /\ mChunk' = mChunk
                   /\ gets' = picked
    /\ UNCHANGED <<mTickers, store, now>>
    /\ UNCHANGED <<coordVars, cacheVars, pureVars>>

BatchNext ==
    \/ \E n \in 0..MaxBatch : \E tickers \in [1..n -> BatchTickers] :
          \E options \in BatchOptions : BatchCall(tickers, options)
    \/ \E g \in 1..MaxBatch : StatFiles(g)
    \/ \E g \in 1..MaxBatch, ok \in BOOLEAN : ReadFiles(g, ok)
    \/ \E g \in 1..MaxBatch, ok \in BOOLEAN : Download(g, ok, 1)
    \/ \E g \in 1..MaxBatch, ok \in BOOLEAN : WriteData(g, ok)
    \/ \E g \in 1..MaxBatch, ok \in BOOLEAN : WriteMeta(g, ok)
    \/ \E i \in 1..MaxBatch : BatchSettles(i)

(***************************************************************************)
(* HistoricalDataService.clearCache next to getStockData: the files of     *)
(* one ticker, or of every ticker, are unlinked; an unlink that fails is   *)
(* swallowed by its own catch.                                             *)
(***************************************************************************)
\* fs.unlink(dataFile) and fs.unlink(metadataFile) on a record, each done
\* or failed
Unlinked(rec, dataGone, metaGone) ==
    [data |-> rec.data /\ ~dataGone,
     mtime |-> IF rec.data /\ ~dataGone THEN rec.mtime ELSE 0,
     meta |-> rec.meta /\ ~metaGone,
     dataOf |-> IF rec.data /\ ~dataGone THEN rec.dataOf ELSE 0,
     metaOf |-> IF rec.meta /\ ~metaGone THEN rec.metaOf ELSE 0]

\* clearCache(ticker): the ticker is uppercased and both unlinks settle
ClearCache(ticker, dataGone, metaGone) ==
    /\ NoGetPending
    /\ store' = [store EXCEPT ![ToUpperCase(ticker)] = Unlinked(@, dataGone, metaGone)]
    /\ UNCHANGED <<now, gets>>
    /\ UNCHANGED NotSeries

\* clearCache(): the files the two readdir calls list are unlinked; a
\* readdir that fails lists nothing, an unlink that fails leaves its file
ClearAllCache(dataGone, metaGone) ==
    /\ NoGetPending
    /\ store' = [k \in DOMAIN store |->
                    Unlinked(store[k], k \in dataGone, k \in metaGone)]
    /\ UNCHANGED <<now, gets>>
    /\ UNCHANGED NotSeries

RecordsNext ==
    \/ \E g \in 1..MaxGets, ticker \in SameTickers, useCache \in BOOLEAN,
          cacheTTL \in TTLs, forceRefresh \in BOOLEAN :
          GetStockData(g, ticker, useCache, cacheTTL, forceRefresh)
    \/ \E g \in 1..MaxGets : StatFiles(g)
    \/ \E g \in 1..MaxGets, ok \in BOOLEAN : ReadFiles(g, ok)
    \/ \E g \in 1..MaxGets, ok \in BOOLEAN, ver \in Versions : Download(g, ok, ver)
    \/ \E g \in 1..MaxGets, ok \in BOOLEAN : WriteData(g, ok)
    \/ \E g \in 1..MaxGets, ok \in BOOLEAN : WriteMeta(g, ok)
    \/ \E g \in 1..MaxGets : ReturnGet(g)
    \/ \E g \in 1..MaxGets : Recycle(g)
    \/ \E ticker \in SameTickers, dataGone \in BOOLEAN, metaGone \in BOOLEAN :
          ClearCache(ticker, dataGone, metaGone)
    \/ \E dataGone \in SUBSET Keys, metaGone \in SUBSET Keys :
          ClearAllCache(dataGone, metaGone)
    \/ Tick


----------------------------------------------------------------------------
(* Specifications *)

SpecCoord == CoordInit /\ [][CoordNext]_vars

SpecMulti == MultiInit /\ [][MultiNext]_vars

SpecSeries == SeriesInit /\ [][SeriesNext]_vars

SpecPersist == PersistInit /\ [][PersistNext]_vars

SpecCache == CacheInit /\ [][CacheNext]_vars

SpecParse == ParseInit /\ [][ParseNext]_vars

SpecColumns == ColumnsInit /\ [][ColumnsNext]_vars

SpecSlice == SliceInit /\ [][SliceNext]_vars

SpecIndicators == IndicatorInit /\ [][IndicatorNext]_vars

SpecAmounts == AmountsInit /\ [][AmountsNext]_vars

SpecSummary == SummaryInit /\ [][SummaryNext]_vars

SpecAnalysis == AnalysisInit /\ [][AnalysisNext]_vars

SpecServer == ServerInit /\ [][ServerNext]_vars

SpecRegister == RegisterInit /\ [][RegisterNext]_vars

SpecHealth == HealthInit /\ [][HealthNext]_vars

SpecSignal == SignalInit /\ [][SignalNext]_vars

SpecOverlap == OverlapInit /\ [][OverlapNext]_vars

SpecBatch == BatchInit /\ [][BatchNext]_vars

SpecRecords == SeriesInit /\ [][RecordsNext]_vars

----------------------------------------------------------------------------
(* Properties of the coordinator and the request wrapper *)

Total(st) == st.successCount + st.errorCount

IsPrefix(s, t) ==
    /\ Len(s) <= Len(t)
    /\ \A i \in 1..Len(s) : s[i] = t[i]

Started(c) == calls[c].pc \in {"await", "done"}

\* the adapters a call has invoked so far, in the order of invocation
InvokedSeq(c) ==
    LET inv == SelectSeq(calls[c].log, LAMBDA e : e.ev = "invoke")
    IN  [i \in 1..Len(inv) |-> inv[i].a]

InvokedSet(c) == {calls[c].log[i].a : i \in 1..Len(calls[c].log)}

\* the results the invoked adapters have resolved with so far
Resolutions(c) == SelectSeq(calls[c].log, LAMBDA e : e.ev = "resolve")

AllAbsent(c) ==
    \A i \in 1..Len(Resolutions(c)) : ~Truthy(Resolutions(c)[i].r)

\* the registered adapters that were healthy when call c began, in the
\* order of the manager's list
HealthyListAtStart(c) ==
    SelectSeq(sources, LAMBDA a : a \in calls[c].healthyAtStart)

\* C1: in a call made while some adapter is healthy, the healthy adapters are
\* invoked one at a time in descending priority order, each one only after the
\* one before it has resolved with absence (null); the call returns the first
\* non-absent result and invokes no adapter after it.
C1_SequentialPriorityOrder ==
    \A c \in DOMAIN calls :
        (Started(c) /\ calls[c].healthyAtStart # {}) =>
            LET log == calls[c].log
                inv == InvokedSeq(c)
            IN  /\ \A i \in 1..Len(log) :
                      /\ log[i].ev = IF i % 2 = 1 THEN "invoke" ELSE "resolve"
                      /\ i % 2 = 0 => log[i].a = log[i - 1].a
                      /\ (i % 2 = 0 /\ i < Len(log)) => ~Truthy(log[i].r)
                /\ IsPrefix(inv, HealthyListAtStart(c))
                /\ \A i, j \in 1..Len(inv) :
                      i < j => Priority(inv[i]) >= Priority(inv[j])
                /\ (calls[c].pc = "done") = (Len(log) % 2 = 0)
                /\ (calls[c].pc = "done" /\ Truthy(log[Len(log)].r)) =>
                      calls[c].result = log[Len(log)].r
                /\ (calls[c].pc = "done" /\ ~Truthy(log[Len(log)].r)) =>
                      inv = HealthyListAtStart(c)

\* a call that stopped at the first non-absent result with healthy adapters
\* of lower priority left untried
C1_Witness ==
    \E c \in DOMAIN calls :
        /\ calls[c].pc = "done"
        /\ Len(InvokedSeq(c)) = 2
        /\ Cardinality(calls[c].healthyAtStart) = 3
        /\ calls[c].result = Val("yahoo")

\* C2: a call that begins with a non-empty healthy subset, all of whose
\* members return absence, returns absence, has tried every adapter of that
\* subset and has invoked no adapter outside it.
C2_HealthyExhaustedIsAbsence ==
    \A c \in DOMAIN calls :
        (calls[c].pc = "done" /\ calls[c].healthyAtStart # {} /\ AllAbsent(c)) =>
            /\ calls[c].result = Null
            /\ InvokedSet(c) \subseteq calls[c].healthyAtStart
            /\ InvokedSeq(c) = HealthyListAtStart(c)

\* two healthy adapters returned absence and the unhealthy third was left alone
C2_Witness ==
    \E c \in DOMAIN calls :
        /\ calls[c].pc = "done"
        /\ Cardinality(calls[c].healthyAtStart) = 2
        /\ AllAbsent(c)
        /\ Len(Resolutions(c)) = 2
        /\ calls[c].result = Null

\* C3: with an unhealthy adapter A of higher priority and a healthy adapter B
\* that returns V, the call returns V and A is not invoked; when no adapter is
\* healthy the call tries all registered adapters in priority order and returns
\* the first non-absent result, or absence when all are exhausted.
C3_UnhealthySkippedElseAll ==
    \A c \in DOMAIN calls :
        LET res == Resolutions(c)
            inv == InvokedSeq(c)
        IN  /\ \A A, B \in Adapters :
                  ( /\ calls[c].pc = "done"
                    /\ Priority(A) > Priority(B)
                    /\ A \notin calls[c].healthyAtStart
                    /\ B \in calls[c].healthyAtStart
                    /\ \E i \in 1..Len(res) : res[i].a = B /\ Truthy(res[i].r) )
                  => /\ calls[c].result = Val(B) \/ calls[c].result = List(B, 1)
                        \/ calls[c].result = List(B, 0)
                     /\ A \notin InvokedSet(c)
            /\ (Started(c) /\ calls[c].healthyAtStart = {}) =>
                  /\ IsPrefix(inv, sources)
                  /\ \A i \in 1..Len(res) : i < Len(res) => ~Truthy(res[i].r)
                  /\ calls[c].pc = "done" =>
                        IF Len(res) > 0 /\ Truthy(res[Len(res)].r)
                        THEN calls[c].result = res[Len(res)].r
                        ELSE /\ inv = sources
                             /\ calls[c].result = Finish(calls[c].cap, Null)

\* no adapter was healthy, the two of high priority were tried first and
\* returned absence, the result is the value of the third
C3_Witness ==
    \E c \in DOMAIN calls :
        /\ calls[c].pc = "done"
        /\ calls[c].healthyAtStart = {}
        /\ InvokedSeq(c) = <<"github", "yahoo", "web">>
        /\ calls[c].result = Val("web")

\* the step in which the wrapped request of call c ends in failure
FailureStep(c, outcome) ==
    \/ outcome = "throw" /\ OpSettles(c, "throw")
    \/ outcome = "timeout" /\ TimerFires(c)

\* C4: a wrapped call whose operation throws or times out resolves to absence
\* and raises nothing; errorCount grows by exactly one, successCount stays,
\* lastRequest is set; no exception of a capability reaches the coordinator.
C4_FailureBecomesAbsence ==
    [][ /\ \A c \in DOMAIN calls : \A outcome \in {"throw", "timeout"} :
              FailureStep(c, outcome) =>
                  LET a == CurrentAdapter(c)
                      cap == calls[c].cap
                      e == calls'[c].log[Len(calls[c].log) + 1]
                  IN  /\ stats'[a].errorCount = stats[a].errorCount + 1
                      /\ stats'[a].successCount = stats[a].successCount
                      /\ stats'[a].lastRequest
                      /\ MakeRequest(stats[a], a, cap, outcome).ret = Null
                      /\ e.ev = "resolve" /\ e.a = a /\ ~e.raised
                      /\ e.r = IF cap = "search" THEN List(a, 0) ELSE Null
        /\ \A outcome \in {"throw", "timeout"} :
              NestedGetStockInfo(outcome) =>
                  /\ stats'["yahoo"].errorCount = stats["yahoo"].errorCount + 1
                  /\ stats'["yahoo"].successCount = stats["yahoo"].successCount
                  /\ stats'["yahoo"].lastRequest
        /\ \A c \in DOMAIN calls : \A i \in 1..Len(calls'[c].log) :
              ~calls'[c].log[i].raised
      ]_vars

\* a fresh adapter has recorded one failure and nothing else, and the call
\* went on to the next adapter
C4_Witness ==
    \E c \in DOMAIN calls : \E a \in Adapters :
        /\ stats[a].errorCount = 1
        /\ stats[a].successCount = 0
        /\ stats[a].lastRequest
        /\ Len(Resolutions(c)) >= 1
        /\ Resolutions(c)[1].a = a
        /\ ~Truthy(Resolutions(c)[1].r)
        /\ Len(InvokedSeq(c)) >= 2

\* C5: the isHealthy flag of every adapter equals
\* errorCount / max(successCount + errorCount, 10) <= 0.5 on its current
\* counters; an adapter that has served no request is healthy.
C5_HealthMatchesCounters ==
    \A a \in Adapters :
        /\ stats[a].isHealthy =
              (stats[a].errorCount * 2 <= Max(Total(stats[a]), HealthWindow))
        /\ Total(stats[a]) = 0 => stats[a].isHealthy

\* an unhealthy adapter has become healthy again through a success
C5_Witness ==
    \E a \in Adapters :
        /\ stats[a].successCount = stats[a].errorCount
        /\ stats[a].errorCount = (HealthWindow \div 2) + 1
        /\ stats[a].isHealthy

\* the step in which the adapter that call c waits for resolves
ResolutionStep(c) ==
    \/ \E outcome \in {"value", "empty", "null", "throw"} : OpSettles(c, outcome)
    \/ TimerFires(c)

C7_LateCompletionIgnored ==
    [][ /\ \A x \in late : \A success \in BOOLEAN :
              (LateOpCompletes(x, success) \/ LateTimerFires(x)) =>
                  /\ stats' = stats
                  /\ calls' = calls
        /\ \A c \in DOMAIN calls :
              TimerFires(c) =>
                  /\ stats'[CurrentAdapter(c)].errorCount =
                        stats[CurrentAdapter(c)].errorCount + 1
                  /\ Len(Resolutions(c))' = Len(Resolutions(c)) + 1
                  /\ \/ calls'[c].pc = "done"
                     \/ calls'[c].idx = calls[c].idx + 1
        /\ \A a \in Adapters :
              /\ Total(stats'[a]) - Total(stats[a]) = wrappedDone'[a] - wrappedDone[a]
              /\ wrappedDone'[a] - wrappedDone[a] \in {0, 1}
      ]_vars

\* the operation of a timed-out request is still running while the call has
\* already returned
C7_Witness ==
    \E c \in DOMAIN calls : \E x \in late :
        /\ x.kind = "op"
        /\ calls[c].pc = "returned"

----------------------------------------------------------------------------
(* Properties of getMultipleStocksData *)

Running == {i \in DOMAIN fetch : fetch[i] = "running"}
Settled == {i \in DOMAIN fetch : fetch[i] \in {"ok", "failed"}}

\* the batch of the ticker at position i when batches hold five tickers
BatchOf(i) == ((i - 1) \div 5) + 1

\* C8: at most 5 getStockData calls of one getMultipleStocksData call are in
\* progress in any state, and a call of a later batch has started only if every
\* call of each earlier batch has settled.
C8_BoundedSequentialBatches ==
    /\ Cardinality(Running) <= 5
    /\ \A i \in DOMAIN fetch : \A j \in DOMAIN fetch :
          (BatchOf(i) < BatchOf(j) /\ fetch[j] # "notStarted") => i \in Settled

\* seven tickers: the two of the second batch are in progress after the five
\* of the first batch have settled, one of them with a failure
C8_Witness ==
    /\ Len(mTickers) = 7
    /\ Running = {6, 7}
    /\ \E i \in 1..5 : fetch[i] = "failed"

\* C9: getMultipleStocksData never rejects; while it runs some call is still
\* in progress, so it returns as soon as the last one settles; when it has
\* returned every ticker of every batch was attempted; and its result holds
\* exactly the uppercased tickers whose getStockData call succeeded.
C9_FailuresExcludedNeverAbort ==
    /\ mPc # "rejected"
    /\ mPc = "running" => Running # {}
    /\ mPc = "done" => Settled = DOMAIN fetch
    /\ mPc \in {"running", "done"} =>
          mResults = {ToUpperCase(mTickers[i]) :
                         i \in {j \in DOMAIN fetch : fetch[j] = "ok"}}

\* a call has returned with TLKM only: every bbca call failed, one of them in
\* the first batch, and a TLKM call of the second batch succeeded afterwards
C9_Witness ==
    /\ mPc = "done"
    /\ Len(mTickers) > 5
    /\ \E i \in 1..5 : fetch[i] = "failed"
    /\ \E j \in 6..Len(mTickers) : fetch[j] = "ok" /\ mTickers[j] = "TLKM"
    /\ mResults = {"TLKM"}
    /\ \E i \in DOMAIN mTickers : mTickers[i] = "bbca"

----------------------------------------------------------------------------
(* Properties of getStockData *)

\* a finished call returned the persisted record without downloading
FromCache(get) == get.ret = "cached" /\ ~get.fetched

\* C10, as stated: a call with useCache and without forceRefresh returns the
\* persisted record without fetching exactly when the record existed and its
\* age was strictly below cacheTTL, and otherwise downloads; a call with
\* forceRefresh or without useCache never returns the persisted record.
C10_HitIffYoungerThanTTL ==
    \A g \in DOMAIN gets :
        gets[g].pc = "done" =>
            IF gets[g].useCache /\ ~gets[g].forceRefresh
            THEN /\ FromCache(gets[g]) <=>
                       /\ gets[g].existed
                       /\ gets[g].age < gets[g].cacheTTL
                       /\ ~gets[g].readFailed
                 /\ ~FromCache(gets[g]) => gets[g].fetched
            ELSE gets[g].ret # "cached"

\* C10, amended: a call with useCache and without forceRefresh returns the
\* persisted record of its uppercased ticker without fetching exactly when the
\* series file and the metadata file existed, the age of the series file was
\* at most cacheTTL and the files could be read; otherwise it downloads. A call
\* with forceRefresh or without useCache never looks at the files and never
\* returns the persisted record.
C10_HitIffNotOlderThanTTL ==
    \A g \in DOMAIN gets :
        gets[g].pc = "done" =>
            IF gets[g].useCache /\ ~gets[g].forceRefresh
            THEN /\ FromCache(gets[g]) <=>
                       /\ gets[g].existed
                       /\ gets[g].age <= gets[g].cacheTTL
                       /\ ~gets[g].readFailed
                 /\ FromCache(gets[g]) => gets[g].retKey = gets[g].ticker
                 /\ ~FromCache(gets[g]) =>
                       gets[g].fetched /\ gets[g].ret = "fresh"
            ELSE /\ gets[g].ret = "fresh"
                 /\ gets[g].fetched
                 /\ ~gets[g].checked

\* a call has returned the persisted record although the age of the record
\* equalled its cacheTTL of one tick
C10_Witness ==
    \E g \in DOMAIN gets :
        /\ gets[g].pc = "done"
        /\ gets[g].cacheTTL = 1
        /\ gets[g].age = 1
        /\ gets[g].existed
        /\ FromCache(gets[g])

----------------------------------------------------------------------------
(* Properties of cacheData *)

\* a call that has just completed successfully after a download
FreshDone(get) == get.pc = "done" /\ get.fetched /\ get.ret = "fresh"

\* both records of the ticker are there and describe the series `parsed`
PersistedAgreeing(rec, parsed) ==
    /\ rec.data
    /\ rec.meta
    /\ rec.dataOf = parsed
    /\ rec.metaOf = parsed

----------------------------------------------------------------------------
(* Properties of the cache layer *)

\* C12: a get of a key whose latest set (with ttl > 0, not deleted or cleared
\* since) lies less than ttl seconds back returns the value set; once more
\* than ttl seconds have passed it returns the absent marker; a get of a key
\* never set returns the absent marker; and no get raises an error.
C12_GetHonoursTtl ==
    cLast.op = "get" =>
        LET set == lastSet[cLast.key]
            elapsed == cLast.at - set.at
        IN  /\ ~cLast.raised
            /\ (set.on /\ set.ttl > 0 /\ elapsed < set.ttl) => cLast.ret = set.value
            /\ (set.on /\ set.ttl > 0 /\ elapsed > set.ttl) => cLast.ret = Undefined
            /\ ~set.on => cLast.ret = Undefined

\* an entry set with a ttl of one second is read two seconds later and found
\* absent
C12_Witness ==
    /\ cLast.op = "get"
    /\ lastSet[cLast.key].on
    /\ lastSet[cLast.key].ttl = 1
    /\ cLast.at - lastSet[cLast.key].at = 2
    /\ cLast.ret = Undefined

\* C13: hits + misses equals the number of get calls made; a get raises
\* exactly one of the two counters by one, hits exactly when it returned a
\* value; set, del, clear (and the passing of time) leave both unchanged; and
\* stats returns the two counters and the number of keys currently held.
C13_CountersMatchGets ==
    [][ /\ hits' + misses' = gotten'
        /\ gotten' = gotten + 1 =>
              IF cLast'.ret # Undefined
              THEN hits' = hits + 1 /\ misses' = misses
              ELSE hits' = hits /\ misses' = misses + 1
        /\ gotten' = gotten => (hits' = hits /\ misses' = misses)
        /\ gotten' \in {gotten, gotten + 1}
        /\ CacheStats =>
              /\ cLast'.report.hits = hits
              /\ cLast'.report.misses = misses
              /\ cLast'.report.keys = Cardinality({k \in CacheKeys : cache[k].held})
      ]_vars

\* after hits and misses, stats reports both counters and one key held
C13_Witness ==
    /\ cLast.op = "stats"
    /\ cLast.report.hits >= 1
    /\ cLast.report.misses >= 1
    /\ cLast.report.keys = 1
    /\ hits + misses = gotten

----------------------------------------------------------------------------
(* Properties of parseStockCSV *)

\* parseStockCSV has returned a series
Parsed == fnRes.pc = "returned"

OhlcRoles == {"date", "open", "high", "low", "close"}

HasColumns(layout) ==
    \A role \in OhlcRoles : \E k \in DOMAIN layout : layout[k].role = role

\* what a row is meant to carry is a sound point: a date, four prices above
\* zero, the high not below and the low not above the open and the close
Sound(row) ==
    /\ row.format # "bad"
    /\ ~row.open.null /\ ~row.high.null /\ ~row.low.null /\ ~row.close.null
    /\ row.open.value > 0 /\ row.high.value > 0
    /\ row.low.value > 0 /\ row.close.value > 0
    /\ row.high.value >= row.open.value /\ row.high.value >= row.close.value
    /\ row.low.value <= row.open.value /\ row.low.value <= row.close.value

Survives(layout, row) == HasColumns(layout) /\ row.cells = "exact" /\ Sound(row)

Ohlc(date, open, high, low, close) ==
    [date |-> date, open |-> open, high |-> high, low |-> low, close |-> close]

ExpectedPoint(row) ==
    Ohlc(NewDate(row.day.y, row.day.m - 1, row.day.d), row.open.value,
         row.high.value, row.low.value, row.close.value)

PointOf(p) == Ohlc(p.date, p.open, p.high, p.low, p.close)

\* the rows of the file that survive, in file order
Survivors == SelectSeq(fnArg.rows, LAMBDA r : Survives(fnArg.layout, r))

Count(seq, x) == Cardinality({i \in DOMAIN seq : seq[i] = x})

\* C14: every point of a returned series has open, high, low, close > 0,
\* high >= max(open, close) and low <= min(open, close); the points returned
\* are those of the sound rows and no others (a row with an invalid or
\* missing price, or of another length than the header, is dropped); and
\* the parse returns whenever at least one row of the file is sound
C14_OnlySoundRowsSurvive ==
    /\ Parsed =>
          /\ \A i \in DOMAIN fnRes.value.dataPoints :
                LET p == fnRes.value.dataPoints[i]
                IN  /\ p.open > 0 /\ p.high > 0 /\ p.low > 0 /\ p.close > 0
                    /\ p.high >= Max(p.open, p.close)
                    /\ p.low <= Min(p.open, p.close)
          /\ LET got == [i \in DOMAIN fnRes.value.dataPoints |->
                            PointOf(fnRes.value.dataPoints[i])]
                 due == [i \in DOMAIN Survivors |-> ExpectedPoint(Survivors[i])]
             IN  /\ Len(got) = Len(due)
                 /\ \A i \in DOMAIN due : Count(got, due[i]) = Count(due, due[i])
    /\ (fnRes # NotApplied /\ Survivors # <<>>) => Parsed

\* a file holding a row whose high lies below its open has been parsed, and
\* fewer points than rows came back
C14_Witness ==
    /\ Parsed
    /\ Len(fnRes.value.dataPoints) < Len(fnArg.rows)
    /\ \E i \in DOMAIN fnArg.rows :
          LET r == fnArg.rows[i]
          IN  /\ r.format # "bad" /\ r.cells = "exact"
              /\ ~r.open.null /\ ~r.high.null /\ ~r.low.null /\ ~r.close.null
              /\ r.low.value > 0 /\ r.high.value > 0
              /\ r.high.value < r.open.value

\* the lines of the file once its surrounding white space is trimmed
LineCount == IF fnArg.layout = <<>> THEN 0 ELSE 1 + Len(fnArg.rows)

\* C16: parseStockCSV fails in exactly two cases, with errors that can be
\* told apart: with the structural error when the file has fewer than two
\* lines, and with the data error when it has at least two lines and no row
\* survives; in every other case it returns a series of at least one point
C16_ExactlyTwoFailures ==
    /\ ParseError # DataError
    /\ fnRes # NotApplied =>
          /\ LineCount < 2 =>
                fnRes.pc = "threw" /\ fnRes.message = ParseError
          /\ (LineCount >= 2 /\ Survivors = <<>>) =>
                fnRes.pc = "threw" /\ fnRes.message = DataError
          /\ (LineCount >= 2 /\ Survivors # <<>>) =>
                Parsed /\ Len(fnRes.value.dataPoints) >= 1

\* a file of a header and two rows, neither of them sound, has been
\* rejected with the data error
C16_Witness ==
    /\ fnRes.pc = "threw"
    /\ fnRes.message = DataError
    /\ Len(fnArg.rows) = 2
    /\ HasColumns(fnArg.layout)

\* the dates the sound rows of the file are meant to carry
DueDates == {ExpectedPoint(Survivors[i]).date : i \in DOMAIN Survivors}

\* C17: the points of a returned series are in non-decreasing date order
\* whatever the order of the rows in the file, startDate is the date of the
\* first point (the earliest date of the file), endDate the date of the last
\* point (the latest) and totalPoints the number of points
C17_SortedWithSummary ==
    Parsed =>
        LET points == fnRes.value.dataPoints
        IN  /\ \A i, j \in DOMAIN points : i < j => points[i].date <= points[j].date
            /\ fnRes.value.startDate = points[1].date
            /\ fnRes.value.endDate = points[Len(points)].date
            /\ \A d \in DueDates :
                  fnRes.value.startDate <= d /\ d <= fnRes.value.endDate
            /\ fnRes.value.totalPoints = Len(points)
            /\ fnRes.value.totalPoints = Len(Survivors)

\* a file whose first row is of a later day than its second row has been
\* parsed, and both rows came back
C17_Witness ==
    /\ Parsed
    /\ Len(fnArg.rows) >= 2
    /\ Survives(fnArg.layout, fnArg.rows[1])
    /\ Survives(fnArg.layout, fnArg.rows[2])
    /\ ExpectedPoint(fnArg.rows[1]).date > ExpectedPoint(fnArg.rows[2]).date
    /\ fnRes.value.startDate < fnRes.value.endDate

\* C18: no two points of a returned series have the same date, also when
\* the file holds several sound rows of the same date
C18_UniqueDates ==
    Parsed =>
        LET points == fnRes.value.dataPoints
        IN  \A i, j \in DOMAIN points : i # j => points[i].date # points[j].date

----------------------------------------------------------------------------
(* Properties of createColumnMap *)

\* the headers of the list whose normalised name is a synonym of the role
ExactMatches(role) ==
    {i \in DOMAIN fnArg : Normalized(fnArg[i]) \in ExactSynonyms[role]}

\* C15: for each of the roles date, open, high, low, close, whenever some
\* header normalises exactly to a synonym of the role, the role resolves to
\* such a column, whatever other headers merely contain a token of the
\* role; the changelog's header line resolves the date to its first column
C15_ExactMatchWins ==
    Parsed =>
        /\ \A role \in OhlcRoles :
              ExactMatches(role) # {} => fnRes.value[role] \in ExactMatches(role)
        /\ fnArg = ChangelogHeaders =>
              /\ fnRes.value.date = 1
              /\ fnArg[fnRes.value.date] = <<"d", "a", "t", "e">>

\* the column map of a header line in which a header holding "date" inside
\* a longer name stands after the header "date" has been computed
C15_Witness ==
    /\ Parsed
    /\ \E i, j \in DOMAIN fnArg :
          /\ i < j
          /\ fnArg[i] = <<"d", "a", "t", "e">>
          /\ fnArg[j] = <<"d", "e", "l", "i", "s", "t", "i", "n", "g", "_", "d", "a", "t", "e">>

----------------------------------------------------------------------------
(* Properties of getDataForPeriod *)

\* the eight period tokens
ShortTokens ==
    [d1 |-> <<"1", "d">>, w1 |-> <<"1", "w">>, m1 |-> <<"1", "m">>, m3 |-> <<"3", "m">>,
     m6 |-> <<"6", "m">>, y1 |-> <<"1", "y">>, y2 |-> <<"2", "y">>, y5 |-> <<"5", "y">>]

\* the same day of the month n months before the reading of the clock, at
\* midnight; a day the month does not have carries into the next month
MonthsBack(clock, n) ==
    LET index == clock.y * 12 + (clock.m - 1) - n
    IN  NewDate(index \div 12, index % 12, clock.d)

\* the cutoff of a token: 24 hours and 7 times 24 hours before the reading
\* of the clock, or 1, 3, 6, 12, 24, 60 calendar months before its day
Cutoff(kind, clock) ==
    IF kind = "d1" THEN TimeOf(clock) - 24
    ELSE IF kind = "w1" THEN TimeOf(clock) - 168
    ELSE IF kind = "m1" THEN MonthsBack(clock, 1)
    ELSE IF kind = "m3" THEN MonthsBack(clock, 3)
    ELSE IF kind = "m6" THEN MonthsBack(clock, 6)
    ELSE IF kind = "y1" THEN MonthsBack(clock, 12)
    ELSE IF kind = "y2" THEN MonthsBack(clock, 24)
    ELSE MonthsBack(clock, 60)

IsSuffix(r, s) ==
    Len(r) <= Len(s) /\ r = SubSeq(s, Len(s) - Len(r) + 1, Len(s))

\* the result is the suffix of the points dated at or after the cutoff
SlicedAt(kind) ==
    /\ fnRes.value = SelectSeq(fnArg.data.dataPoints,
                               LAMBDA p : p.date >= Cutoff(kind, fnArg.clock))
    /\ IsSuffix(fnRes.value, fnArg.data.dataPoints)

\* C19 as stated: for a token among 1d, 1w, 1m, 3m, 6m, 1y, 2y, 5y the
\* result is exactly the points dated at or after the token's cutoff, a
\* contiguous suffix of the series; for any other token the result is the
\* full series, and no error is raised
C19_SuffixOrFullSeries ==
    fnRes # NotApplied =>
        /\ Parsed
        /\ \A k \in DOMAIN ShortTokens : fnArg.period = ShortTokens[k] => SlicedAt(k)
        /\ (\A k \in DOMAIN ShortTokens : fnArg.period # ShortTokens[k]) =>
              fnRes.value = fnArg.data.dataPoints

\* C19 amended: a token that, in lower case, is one of 1d, 1w, 1m, 3m, 6m,
\* 1y, 2y, 5y or of 1day, 1week, 1month, 3months, 6months, 1year, 2years,
\* 5years yields exactly the points dated at or after its cutoff, a
\* contiguous suffix of the series; every other token yields the full
\* series; no error is raised
C19_SuffixForEveryLabel ==
    fnRes # NotApplied =>
        /\ Parsed
        /\ \A k \in DOMAIN PeriodLabels :
              ToLowerCase(fnArg.period) \in PeriodLabels[k] => SlicedAt(k)
        /\ (\A k \in DOMAIN PeriodLabels :
                ToLowerCase(fnArg.period) \notin PeriodLabels[k]) =>
              fnRes.value = fnArg.data.dataPoints

\* the series has been sliced for the token 1month, which is none of the
\* eight, and a proper, non-empty suffix came back
C19_Witness ==
    /\ Parsed
    /\ fnArg.period = <<"1", "m", "o", "n", "t", "h">>
    /\ fnRes.value # <<>>
    /\ Len(fnRes.value) < Len(fnArg.data.dataPoints)

----------------------------------------------------------------------------
(* Properties of the indicator arrays *)

\* the first point with enough history for an entry of the array
FirstFull(name, periods) ==
    IF name = "rsi" THEN periods[1] + 1
    ELSE IF name = "macd" THEN Max(periods[1], periods[2])
    ELSE IF name \in {"signal", "histogram"}
    THEN Max(periods[1], periods[2]) + periods[3] - 1
    ELSE periods[1]

\* C20: for every length n >= 0 of the series and every indicator array
\* (SMA, EMA, RSI, the MACD line, signal and histogram, the Bollinger upper,
\* middle and lower band) the array has exactly n entries, entry i is
\* computed from point i and points before it, and the entries without
\* enough history, and only they, are NaN
C20_AlignedWithSentinel ==
    Parsed =>
        \A name \in DOMAIN fnRes.value :
            LET array == fnRes.value[name]
            IN  /\ Len(array) = Len(fnArg.data)
                /\ \A i \in DOMAIN array :
                      /\ array[i].nan <=> i < FirstFull(name, fnArg.call.periods)
                      /\ ~array[i].nan =>
                            /\ fnArg.data[i].close \in array[i].from
                            /\ array[i].from \subseteq
                                  {fnArg.data[k].close : k \in 1..i}

----------------------------------------------------------------------------
(* Properties of the amounts of the SMA and the RSI *)

\* the closes of the series, and the sum of those at positions lo..hi
ClosesOf(data) == [i \in DOMAIN data |-> data[i].close]

WindowSum(closes, lo, hi) ==
    LET upTo[k \in 0..Len(closes)] == IF k = 0 THEN 0 ELSE upTo[k - 1] + closes[k]
    IN  upTo[hi] - upTo[lo - 1]

\* C21: the SMA is NaN at every point before the window-th and the
\* arithmetic mean of the window closes ending at the point at every other
\* one; for window 3 and closes 10, 20, 30, 40 it is NaN, NaN, 20, 30
C21_SmaIsWindowMean ==
    (Parsed /\ fnArg.call.indicator = "sma") =>
        LET sma == fnRes.value.sma
            window == fnArg.call.periods[1]
            closes == ClosesOf(fnArg.data)
        IN  /\ Len(sma) = Len(closes)
            /\ \A i \in DOMAIN sma :
                  IF i < window THEN sma[i].nan
                  ELSE /\ ~sma[i].nan
                       /\ Same(sma[i].amount,
                               Ratio(WindowSum(closes, i - window + 1, i), window))
            /\ (closes = <<10, 20, 30, 40>> /\ window = 3) =>
                  /\ sma[1].nan /\ sma[2].nan
                  /\ Same(sma[3].amount, Ratio(20, 1))
                  /\ Same(sma[4].amount, Ratio(30, 1))

\* the SMA of window 3 over the closes 10, 20, 30, 40 has been computed
C21_Witness ==
    /\ Parsed
    /\ fnArg.call = [indicator |-> "sma", periods |-> <<3>>]
    /\ ClosesOf(fnArg.data) = <<10, 20, 30, 40>>

\* C22: every RSI entry that is a number lies in [0, 100]; it is exactly 100
\* when no close fell within its trailing window (the average loss is 0);
\* the first entry is NaN; and for a series of at least window + 1 points
\* the last entry is a number
C22_RsiBounded ==
    (Parsed /\ fnArg.call.indicator = "rsi") =>
        LET rsi == fnRes.value.rsi
            window == fnArg.call.periods[1]
            closes == ClosesOf(fnArg.data)
        IN  /\ rsi[1].nan
            /\ \A i \in DOMAIN rsi :
                  ~rsi[i].nan =>
                      /\ AtMost(Ratio(0, 1), rsi[i].amount)
                      /\ AtMost(rsi[i].amount, Ratio(100, 1))
                      /\ (\A k \in (i - window)..(i - 1) : closes[k + 1] >= closes[k])
                            => Same(rsi[i].amount, Ratio(100, 1))
            /\ Len(closes) >= window + 1 => ~rsi[Len(rsi)].nan

\* an RSI has been computed whose last entry lies strictly between 0 and
\* 100 and which holds an entry of exactly 100
C22_Witness ==
    /\ Parsed
    /\ fnArg.call.indicator = "rsi"
    /\ LET rsi == fnRes.value.rsi
       IN  /\ ~rsi[Len(rsi)].nan
           /\ ~Same(rsi[Len(rsi)].amount, Ratio(100, 1))
           /\ ~Same(rsi[Len(rsi)].amount, Ratio(0, 1))
           /\ \E i \in DOMAIN rsi :
                 ~rsi[i].nan /\ Same(rsi[i].amount, Ratio(100, 1))

(***************************************************************************)
(* Properties of generateSummary                                           *)
(***************************************************************************)
\* the weight, in twentieths, that the signals of one kind carry
Twentieths(signals, kinds) ==
    LET score == Score(signals, Len(signals), kinds)
    IN  (20 * score.n) \div score.d

\* C23: whatever the three analyses yield, none of them included, the
\* summary is consistent: the trend is bullish (bearish) exactly when the
\* bullish (bearish) share of the total weight is above 0.6, and never both
\* shares are; the recommendation is buy, sell or hold as the trend is
\* bullish, bearish or neutral; the strength is weak exactly when the trend
\* is neutral and else strong exactly when the winning share is above 0.8;
\* the confidence is the winning share, 0.5 when neutral, and lies in [0, 1]
C23_SummaryConsistent ==
    Parsed =>
        LET summary == fnRes.value
            signals == Signals(fnArg.data, fnArg.indicators)
            bullish == Twentieths(signals, {"bullish"})
            bearish == Twentieths(signals, {"bearish"})
            total == Twentieths(signals, {"bullish", "bearish", "neutral"})
            winning == IF summary.trend = "bullish" THEN bullish ELSE bearish
        IN  /\ summary.trend = "bullish" <=> (total > 0 /\ 5 * bullish > 3 * total)
            /\ summary.trend = "bearish" <=> (total > 0 /\ 5 * bearish > 3 * total)
            /\ ~(5 * bullish > 3 * total /\ 5 * bearish > 3 * total)
            /\ summary.trend \in {"bullish", "bearish", "neutral"}
            /\ summary.recommendation = "buy" <=> summary.trend = "bullish"
            /\ summary.recommendation = "sell" <=> summary.trend = "bearish"
            /\ summary.recommendation = "hold" <=> summary.trend = "neutral"
            /\ summary.strength = "weak" <=> summary.trend = "neutral"
            /\ summary.trend # "neutral" =>
                  /\ summary.strength = "strong" <=> 5 * winning > 4 * total
                  /\ summary.strength = "moderate" <=> ~(5 * winning > 4 * total)
                  /\ Same(summary.confidence, Ratio(winning, total))
            /\ summary.trend = "neutral" => Same(summary.confidence, Ratio(1, 2))
            /\ summary.confidence.d > 0
            /\ AtMost(Ratio(0, 1), summary.confidence)
            /\ AtMost(summary.confidence, Ratio(1, 1))

\* a summary has been made of no signal at all, and it is neutral, weak,
\* hold with confidence 0.5
C23_Witness ==
    /\ Parsed
    /\ Signals(fnArg.data, fnArg.indicators) = <<>>
    /\ fnRes.value.trend = "neutral"
    /\ fnRes.value.recommendation = "hold"
    /\ Same(fnRes.value.confidence, Ratio(1, 2))

----------------------------------------------------------------------------
(* Properties of analyzeStock *)

\* the series has TrendDays points and each close is the close before
\* raised by 0.5%, rounded down to a whole number
SteadyUptrend(data) ==
    /\ Len(data) = TrendDays
    /\ \A i \in 1..(Len(data) - 1) :
          data[i + 1].close = (data[i].close * 1005) \div 1000

\* C24: the analysis of a 300-point daily series whose close rises by a
\* steady 0.5% a day has the trend bullish and the recommendation buy; the
\* last MACD entry lies above the last signal entry by more than one whole
\* unit, more than the rounding of the amounts can account for
C24_UptrendIsBuy ==
    (Parsed /\ SteadyUptrend(fnArg.data)) =>
        LET macd == fnRes.value.technicalIndicators.macd
        IN  /\ fnRes.value.summary.trend = "bullish"
            /\ fnRes.value.summary.recommendation = "buy"
            /\ fnRes.value.dataPoints = TrendDays
            /\ Last(macd.macd).amount.n - Last(macd.signal).amount.n > Precision

\* the steadily rising series has been analysed: the three analyses each
\* gave a signal, the RSI is 100, and the bullish share is 2 / 3
C24_Witness ==
    /\ Parsed
    /\ SteadyUptrend(fnArg.data)
    /\ Len(Signals(fnArg.data, fnRes.value.technicalIndicators)) = 3
    /\ Same(Last(fnRes.value.technicalIndicators.rsi).amount, Ratio(100, 1))
    /\ fnRes.value.summary.strength = "moderate"
    /\ Same(fnRes.value.summary.confidence, Ratio(2, 3))

\* C25: the analysis fails, with the insufficient-data error, exactly when
\* the series has fewer than 2 points; of a series of 2 or more points it
\* returns an analysis that counts the points and holds a summary
C25_FailsBelowTwoPoints ==
    fnRes # NotApplied =>
        /\ fnRes.pc \in {"threw", "returned"}
        /\ fnRes.pc = "threw" <=> Len(fnArg.data) < 2
        /\ fnRes.pc = "threw" => fnRes = Threw("Insufficient data for analysis")
        /\ fnRes.pc = "returned" =>
              /\ fnRes.value.dataPoints = Len(fnArg.data)
              /\ fnRes.value.ticker = fnArg.ticker
              /\ fnRes.value.summary.trend \in {"bullish", "bearish", "neutral"}
              /\ fnRes.value.summary.recommendation \in {"buy", "sell", "hold"}

\* a series of exactly 2 points has been analysed: no analysis gives a
\* signal and the summary is neutral, hold
C25_Witness ==
    /\ Parsed
    /\ Len(fnArg.data) = 2
    /\ fnRes.value.dataPoints = 2
    /\ fnRes.value.summary.recommendation = "hold"
    /\ fnRes.value.priceAnalysis.priceChange # 0

----------------------------------------------------------------------------
(* Properties of the tool handlers *)

\* the coordinator answered null to a call of one of its five tools that
\* reached it: nothing was cached, nothing threw, and a search query was
\* long enough
AbsenceAnswered ==
    /\ Parsed
    /\ fnArg.name # "compare_stocks"
    /\ ~Truthy(fnArg.env.cached)
    /\ ~Truthy(fnArg.env.tried)
    /\ fnArg.env.thrown = "none"
    /\ fnArg.name = "search_stocks" => Len(Trim(fnArg.args.query)) >= 2

\* the responses of the catch blocks
GenericFailures == {FailureResponse(StringOfError(m)) : m \in {e.message : e \in LookupAnswers}}

----------------------------------------------------------------------------
(* Properties of addSource *)

\* where the adapter stands in the list
PlaceOf(list, a) == CHOOSE i \in DOMAIN list : list[i] = a

\* C27: every registration leaves the list ordered by descending priority,
\* keeps the adapters registered before in the order they had, and puts the
\* new adapter behind those of its own priority: adapters of equal priority
\* stand in the order of their registration
C27_PriorityThenRegistration ==
    [][sources' # sources =>
          /\ \A i, j \in DOMAIN sources' :
                i < j => Priority(sources'[i]) >= Priority(sources'[j])
          /\ Len(sources') = Len(sources) + 1
          /\ \A i, j \in DOMAIN sources :
                i < j => PlaceOf(sources', sources[i]) < PlaceOf(sources', sources[j])
          /\ \E a \in Range(sources') \ Range(sources) :
                \A b \in Range(sources) :
                    Priority(b) = Priority(a) =>
                        PlaceOf(sources', b) < PlaceOf(sources', a)]_vars

\* adapters of all three priorities have been registered, yahoo before
\* github and backup before archive, the MEDIUM ones last
C27_Witness ==
    sources = <<"yahoo", "github", "web", "mirror", "backup", "archive">>

----------------------------------------------------------------------------
(* Properties of the health of an adapter *)

\* how many of the recorded requests failed
FailedAmong(outcomes) == Cardinality({i \in DOMAIN outcomes : ~outcomes[i]})

\* C29: the adapter is unhealthy only when more than half of its last 10
\* requests failed; an adapter whose last 10 requests all succeeded is
\* healthy whatever came before
C29_UnhealthyOnlyOnRecentFailures ==
    ~stats["yahoo"].isHealthy => 2 * FailedAmong(fnArg) > HealthWindow

\* the last 10 requests of the adapter all succeeded and it is unhealthy
C29_Witness ==
    /\ Len(fnArg) = HealthWindow
    /\ FailedAmong(fnArg) = 0
    /\ ~stats["yahoo"].isHealthy

----------------------------------------------------------------------------
(* Properties of the secondary date pass of createColumnMap *)

\* the columns whose normalised header contains a date token
DateTokenColumns ==
    {i \in DOMAIN fnArg :
        \E t \in SubstringTokens.date : Includes(Normalized(fnArg[i]), t)}

\* C30: when no header is an exact date synonym, the date resolves to the
\* first header, in header order, that contains a date token
C30_FirstDateTokenWins ==
    (Parsed /\ ExactMatches("date") = {} /\ DateTokenColumns # {}) =>
        /\ fnRes.value.date \in DateTokenColumns
        /\ \A i \in DateTokenColumns : fnRes.value.date <= i

\* the column map of a header line without an exact date synonym and with
\* two headers that contain a date token has been computed, and the date is
\* the later of the two
C30_Witness ==
    /\ Parsed
    /\ fnArg = <<<<"d", "e", "l", "i", "s", "t", "i", "n", "g", "_", "d", "a", "t", "e">>,
                 <<"c", "l", "o", "s", "e">>,
                 <<"u", "p", "d", "a", "t", "e", "_", "t", "i", "m", "e">>>>
    /\ fnRes.value.date = 3

\* the points of the entry's ticker that lie inside the period asked for
InsidePeriod(ticker) ==
    GetDataForPeriod([dataPoints |-> StoredSeries(ticker)], fnArg.args.period,
                     fnArg.env.clock)

\* C28: compare_stocks computes the metrics of each ticker over the period
\* asked for only: the start price is the first close inside the period,
\* the end price the last one, the highest and lowest price and the number
\* of points are those of the points inside the period
C28_MetricsOverThePeriod ==
    (Parsed /\ fnArg.name = "compare_stocks" /\ fnRes.value.response.success) =>
        LET comparisons == fnRes.value.response.data.comparisons
        IN  \A i \in DOMAIN comparisons :
                LET inside == InsidePeriod(comparisons[i].ticker)
                    performance == comparisons[i].performance
                IN  /\ Len(inside) > 0
                    /\ comparisons[i].dataPoints = Len(inside)
                    /\ performance.startPrice = inside[1].close
                    /\ performance.endPrice = inside[Len(inside)].close
                    /\ performance.highestPrice =
                          Highest([k \in DOMAIN inside |-> inside[k].high])
                    /\ performance.lowestPrice =
                          Lowest([k \in DOMAIN inside |-> inside[k].low])

\* two tickers have been compared over one month: the start price of BBCA
\* is its close of 2019, five years before the period begins
C28_Witness ==
    /\ Parsed
    /\ fnArg.name = "compare_stocks"
    /\ fnArg.args = [tickers |-> <<"BBCA", "BBRI">>, period |-> <<"1", "m">>]
    /\ fnRes.value.response.success
    /\ fnRes.value.response.data.comparisons[1].performance.startPrice = 80
    /\ fnRes.value.response.data.comparisons[1].dataPoints = 4
    /\ Len(InsidePeriod("BBCA")) = 2

----------------------------------------------------------------------------
(* Properties of the ttl of a set *)

\* the entry NodeCache would hold for the latest set of a key, had the ttl
\* argument of that set been passed on as it was given
AsGiven(key) ==
    NodeSet(cache, key, lastSet[key].value, lastSet[key].ttl, lastSet[key].at)[key]

\* C31: the lifetime of an entry is determined by the ttl passed to set alone,
\* also when that ttl is 0: every entry held is the one its latest set
\* asked for, and no default lifetime has taken the place of the ttl given.
C31_TtlAloneDecidesLifetime ==
    \A key \in CacheKeys :
        (lastSet[key].on /\ cache[key].held) => cache[key] = AsGiven(key)

\* an entry set with ttl 0 is held with the default lifetime of 300 seconds
C31_Witness ==
    \E key \in CacheKeys :
        /\ lastSet[key].on
        /\ lastSet[key].ttl = 0
        /\ cache[key].held
        /\ cache[key].t = lastSet[key].at + DefaultTtl

----------------------------------------------------------------------------
(* Properties of the signal line *)

\* the numbers of a line, and the place of the first of them (0: none)
NumbersOf(line) == {i \in DOMAIN line : ~line[i].nan}

FirstNumber(line) ==
    IF NumbersOf(line) = {} THEN 0
    ELSE CHOOSE i \in NumbersOf(line) : \A j \in NumbersOf(line) : i <= j

\* the place of the first entry of the signal line that is a number
SeedPlace(line, period) == FirstNumber(line) + period - 1

\* the mean of the numbers among line[lo..hi], in 1 / Precision
MeanOfNumbers(line, lo, hi) ==
    LET amounts == [k \in 1..(hi - lo + 1) |->
                       IF line[lo + k - 1].nan THEN 0 ELSE line[lo + k - 1].amount.n]
    IN  SumOf(amounts, 1, hi - lo + 1) \div Cardinality(NumbersOf(line) \cap (lo..hi))

\* C32: the signal line is seeded from the first numbers of the MACD line,
\* the NaN entries in front of them skipped; from its first number on every
\* entry of it is a number, a NaN of the MACD line further on making it
\* repeat the entry before; and the histogram is MACD minus signal where
\* both are numbers and NaN elsewhere.
C32_SignalSeededAndCarried ==
    fnRes # NotApplied =>
        LET macd == fnArg.macd
            signal == fnRes.value.signal
            histogram == fnRes.value.histogram
            first == FirstNumber(macd)
            seed == SeedPlace(macd, fnArg.signalPeriod)
        IN  /\ \A i \in DOMAIN signal : i < seed => signal[i].nan
            /\ first = 0 => \A i \in DOMAIN signal : signal[i].nan
            /\ (first > 0 /\ seed <= Len(macd)) =>
                  /\ Len(signal) = Len(macd)
                  /\ ~signal[seed].nan
                  /\ signal[seed].amount.n = MeanOfNumbers(macd, first, seed)
                  /\ \A i \in (seed + 1)..Len(macd) :
                        /\ ~signal[i].nan
                        /\ macd[i].nan => signal[i] = signal[i - 1]
                        /\ ~macd[i].nan =>
                              signal[i].amount =
                                  EmaStep(macd[i].amount, signal[i - 1].amount,
                                          fnArg.signalPeriod)
            /\ Len(histogram) = Len(macd)
            /\ \A i \in DOMAIN macd :
                  IF ~macd[i].nan /\ i \in DOMAIN signal /\ ~At(signal, i).nan
                  THEN /\ ~histogram[i].nan
                       /\ histogram[i].amount.n = macd[i].amount.n - signal[i].amount.n
                  ELSE histogram[i].nan

\* a MACD line with a NaN in front and a NaN after the seed of the signal
\* line: the signal repeats its entry there and the histogram is NaN
C32_Witness ==
    /\ fnRes # NotApplied
    /\ fnArg.signalPeriod = 2
    /\ Len(fnArg.macd) = 5
    /\ NumbersOf(fnArg.macd) = {2, 3, 5}
    /\ ~fnRes.value.signal[4].nan
    /\ fnRes.value.signal[4] = fnRes.value.signal[3]
    /\ fnRes.value.histogram[4].nan
    /\ ~fnRes.value.histogram[5].nan

----------------------------------------------------------------------------
(* Properties of the search capability *)

\* C33: in a search the first adapter invoked ends the fallback whatever it
\* answers, a list with entries or the empty list, the empty list of a
\* failed or timed out wrapped call included: no other adapter is invoked,
\* the call returns the list that adapter resolved with, and a search
\* never returns absence.
C33_EmptyListEndsSearch ==
    \A c \in DOMAIN calls :
        (Started(c) /\ calls[c].cap = "search") =>
            /\ InvokedSeq(c) = <<calls[c].list[1]>>
            /\ \A i \in 1..Len(Resolutions(c)) : Resolutions(c)[i].r.kind = "list"
            /\ calls[c].pc = "done" =>
                  /\ Len(Resolutions(c)) = 1
                  /\ calls[c].result = Resolutions(c)[1].r
                  /\ calls[c].result.kind = "list"

\* the search of the dataset adapter has timed out while yahoo was healthy:
\* the call has returned the empty list and yahoo was not invoked
C33_Witness ==
    \E c \in DOMAIN calls :
        /\ calls[c].pc = "done"
        /\ calls[c].cap = "search"
        /\ "yahoo" \in calls[c].healthyAtStart
        /\ InvokedSeq(c) = <<"github">>
        /\ LateOpRec("github", "search") \in late
        /\ calls[c].result = List("github", 0)

----------------------------------------------------------------------------
(* Properties of the statistics of an unhealthy adapter *)

SomeHealthy == \E b \in Adapters : stats[b].isHealthy

\* call c invokes adapter a in this step
Invokes(c, a) ==
    /\ calls'[c] # calls[c]
    /\ calls'[c].pc = "await"
    /\ calls'[c].list[calls'[c].idx] = a

\* the request call c has made of adapter a resolves in this step
Resolves(c, a) ==
    /\ calls[c].pc = "await"
    /\ CurrentAdapter(c) = a
    /\ calls'[c] # calls[c]

\* C34 as stated: while some adapter is healthy no call invokes an
\* unhealthy adapter, and the counters and the health flag of an unhealthy
\* adapter stay as they are.
C34_UnhealthyUntouched ==
    [][ \A a \in Adapters :
            (~stats[a].isHealthy /\ SomeHealthy) =>
                /\ \A c \in DOMAIN calls : ~Invokes(c, a)
                /\ stats'[a] = stats[a]
      ]_vars

\* C34, amended: a call invokes only adapters that were healthy when it
\* began, unless none was; the counters and the health flag of an unhealthy
\* adapter change only when a request resolves that such a call has made
\* of it, or when a nested getStockInfo request of yahoo resolves.
C34_UnhealthyChangesByOwnRequests ==
    [][ /\ \A c \in DOMAIN calls : \A a \in Adapters :
              Invokes(c, a) =>
                  \/ a \in calls'[c].healthyAtStart
                  \/ calls'[c].healthyAtStart = {}
        /\ \A a \in Adapters :
              (~stats[a].isHealthy /\ stats'[a] # stats[a]) =>
                  \/ \E c \in DOMAIN calls :
                        /\ Resolves(c, a)
                        /\ \/ a \in calls[c].healthyAtStart
                           \/ calls[c].healthyAtStart = {}
                  \/ a = "yahoo" /\ nested' = nested + 1
      ]_vars

\* yahoo, one failure short of unhealthy when a marketOverview call began,
\* has recorded two failures since, one of the call and one of a nested
\* request, the later of them while it was unhealthy and github healthy
C34_Witness ==
    \E c \in DOMAIN calls :
        /\ Started(c)
        /\ calls[c].cap = "marketOverview"
        /\ "yahoo" \in calls[c].healthyAtStart
        /\ stats["github"].isHealthy
        /\ nested = 1
        /\ stats["yahoo"].successCount = 0
        /\ stats["yahoo"].errorCount = HealthWindow \div 2 + 2
        /\ ~stats["yahoo"].isHealthy

----------------------------------------------------------------------------
(* Properties of a request that resolves with absence *)

\* the operation call c waits for resolves in time with null or the
\* empty list
AbsenceStep(c) == OpSettles(c, "null") \/ OpSettles(c, "empty")

\* C35: a wrapped request whose operation resolves in time with null or the
\* empty list counts as a success: successCount grows by one, errorCount
\* stays, and the adapter does not become unhealthy by it; an adapter with
\* no failure on record is healthy.
C35_AbsenceCountsAsSuccess ==
    [][ /\ \A c \in DOMAIN calls :
              (AbsenceStep(c) /\ Wrapped(CurrentAdapter(c), calls[c].cap)) =>
                  LET a == CurrentAdapter(c)
                  IN  /\ stats'[a].successCount = stats[a].successCount + 1
                      /\ stats'[a].errorCount = stats[a].errorCount
                      /\ stats[a].isHealthy => stats'[a].isHealthy
        /\ \A a \in Adapters : stats'[a].errorCount = 0 => stats'[a].isHealthy
      ]_vars

\* the web adapter, fresh at the start, has answered a stockInfo request
\* with null and has one success and no failure on record
C35_Witness ==
    \E c \in DOMAIN calls :
        /\ Started(c)
        /\ calls[c].cap = "stockInfo"
        /\ Len(Resolutions(c)) >= 1
        /\ Resolutions(c)[Len(Resolutions(c))].a = "web"
        /\ Resolutions(c)[Len(Resolutions(c))].r = Null
        /\ stats["web"].successCount = 1
        /\ stats["web"].errorCount = 0
        /\ stats["web"].isHealthy

----------------------------------------------------------------------------
(* Properties of overlapping coordinator invocations *)

\* C36: every adapter the loop over the healthy adapters invokes was healthy
\* when its call began; the list is the one filtered at that moment, and the
\* loop goes on to the next adapter of it whatever the adapter's flag says
\* by then, so that an adapter another call has made unhealthy in the
\* meantime is invoked all the same.
C36_HealthySetFixedAtStart ==
    [][ \A c \in DOMAIN calls :
            (calls'[c].pc \in {"await", "done"} /\ calls'[c].healthyAtStart # {}) =>
                /\ calls'[c].list = HealthyListAtStart(c)'
                /\ InvokedSet(c)' \subseteq calls'[c].healthyAtStart
                /\ calls[c].pc = "await" =>
                      /\ calls'[c].list = calls[c].list
                      /\ calls'[c].healthyAtStart = calls[c].healthyAtStart
                      /\ calls'[c].idx \in {calls[c].idx, calls[c].idx + 1}
                      /\ calls'[c].flagged \subseteq calls'[c].healthyAtStart
      ]_vars

\* a call of the healthy tier has invoked yahoo after another call's request
\* of yahoo had failed and made it unhealthy, while a third adapter is healthy
C36_Witness ==
    \E c, d \in DOMAIN calls :
        /\ c # d
        /\ Started(c)
        /\ "yahoo" \in calls[c].healthyAtStart
        /\ "yahoo" \in calls[c].flagged
        /\ \E i \in 1..Len(Resolutions(d)) :
              Resolutions(d)[i].a = "yahoo" /\ Resolutions(d)[i].r = Null
        /\ \E b \in Adapters : stats[b].isHealthy

----------------------------------------------------------------------------
(* Properties of a chunk of getStockData calls *)

\* the positions of the tickers argument whose calls have started
StartedAt == {i \in DOMAIN fetch : fetch[i] # "notStarted"}

\* the cache check of a call found no record, or one that is expired
FoundNothingFresh(get) ==
    get.checked /\ (~get.existed \/ Expired(get.age, get.cacheTTL))

\* C37: getMultipleStocksData makes one getStockData call for every element
\* of the list, a symbol that stands twice in it (in whatever letter case)
\* included, and no call shares the work of another: a call whose check
\* finds no fresh record downloads for itself, and with useCache writes
\* both files for itself; the result has one entry for each symbol that
\* some call obtained.
C37_OneCallPerElement ==
    mPc \in {"running", "done"} =>
        /\ \A i \in StartedAt :
              /\ gets[i].pc # "idle"
              /\ gets[i].ticker = ToUpperCase(mTickers[i])
              /\ (FoundNothingFresh(gets[i]) /\ gets[i].pc # "download") =>
                    gets[i].fetched
              /\ gets[i].ret = "fresh" => gets[i].fetched
              /\ (gets[i].fetched /\ gets[i].parsed # 0 /\ gets[i].useCache) =>
                    (gets[i].wData # "none" /\ gets[i].wMeta # "none")
        /\ mResults = {ToUpperCase(mTickers[i]) :
                          i \in {j \in DOMAIN fetch : fetch[j] = "ok"}}

\* bbca and BBCA in one list, no record of BBCA on disk: both calls have
\* downloaded and the four writes on the two files of BBCA are under way
C37_Witness ==
    /\ mTickers = <<"bbca", "BBCA">>
    /\ mPc = "running"
    /\ \A i \in 1..2 :
          /\ gets[i].checked
          /\ ~gets[i].existed
          /\ gets[i].fetched
          /\ gets[i].wData = "pending"
          /\ gets[i].wMeta = "pending"
    /\ gets[1].ticker = gets[2].ticker
    /\ ~store["BBCA"].data

----------------------------------------------------------------------------
(* Properties of the durable records under failures *)

\* no getStockData call is in progress and no write is under way
Quiet == \A g \in DOMAIN gets : ~InProgress(gets[g])

Paired == \A k \in DOMAIN store : store[k].data = store[k].meta

\* C38: whenever no operation is in progress a ticker has a series file
\* exactly if it has a metadata file, also after a download, a parse, a
\* single write or a single unlink has failed; a failed download or parse
\* leaves the files as they were; and a failed write does not make
\* getStockData fail.
C38_RecordsStayPaired ==
    [][ /\ Quiet' => Paired'
        /\ \A g \in DOMAIN gets :
              /\ (gets[g].pc # "failed" /\ gets'[g].pc = "failed") =>
                    (gets[g].pc = "download" /\ store' = store)
              /\ (WriteData(g, FALSE) \/ WriteMeta(g, FALSE)) =>
                    gets'[g].pc # "failed"
      ]_vars

\* nothing is in progress and BBCA has a series file without a metadata file
C38_Witness ==
    /\ Quiet
    /\ store["BBCA"].data
    /\ ~store["BBCA"].meta

----------------------------------------------------------------------------
(* Properties of a neutral signal in the summary *)

\* what the SMA trend analysis makes of the inputs: nothing when an average
\* is NaN, else bullish or bearish when price and averages are strictly
\* ordered, else neutral
TrendKind(data, indicators) ==
    LET price == Ratio(data[Len(data)].close, 1)
        sma20 == Last(indicators.sma[20])
        sma50 == Last(indicators.sma[50])
    IN  IF sma20.nan \/ sma50.nan THEN "none"
        ELSE IF More(price, sma20.amount) /\ More(sma20.amount, sma50.amount)
        THEN "bullish"
        ELSE IF More(sma20.amount, price) /\ More(sma50.amount, sma20.amount)
        THEN "bearish"
        ELSE "neutral"

\* what the RSI analysis makes of the inputs: nothing of NaN, bearish above
\* 70, bullish below 30, else neutral
MomentumKind(indicators) ==
    LET rsi == Last(indicators.rsi)
    IN  IF rsi.nan THEN "none"
        ELSE IF More(rsi.amount, Ratio(70, 1)) THEN "bearish"
        ELSE IF More(Ratio(30, 1), rsi.amount) THEN "bullish"
        ELSE "neutral"

\* what the MACD analysis makes of the inputs: never neutral
CrossingKind(indicators) ==
    LET macd == Last(indicators.macd.macd)
        signal == Last(indicators.macd.signal)
    IN  IF macd.nan \/ signal.nan THEN "none"
        ELSE IF More(macd.amount, signal.amount) THEN "bullish"
        ELSE "bearish"

\* the weight in twentieths that the three analyses put in the bucket of a
\* kind: 0.3, 0.25 and 0.2 are 6, 5 and 4 twentieths
Bucket(kind, data, indicators) ==
    (IF TrendKind(data, indicators) = kind THEN 6 ELSE 0)
    + (IF MomentumKind(indicators) = kind THEN 5 ELSE 0)
    + (IF CrossingKind(indicators) = kind THEN 4 ELSE 0)

\* the number of analyses that are neutral
Neutrals(data, indicators) ==
    (IF TrendKind(data, indicators) = "neutral" THEN 1 ELSE 0)
    + (IF MomentumKind(indicators) = "neutral" THEN 1 ELSE 0)

\* C39: a neutral SMA or RSI signal carries the weight 0.1 (2 twentieths):
\* the total weight is the bullish bucket plus the bearish bucket plus 0.1
\* per neutral signal, the buckets hold the directional weights only, and
\* the trend, the strength and the confidence of the summary returned are
\* those of the bullish and bearish fractions over that total
C39_NeutralWeighsOneTenth ==
    Parsed =>
        LET summary == fnRes.value
            signals == Signals(fnArg.data, fnArg.indicators)
            bullish == Bucket("bullish", fnArg.data, fnArg.indicators)
            bearish == Bucket("bearish", fnArg.data, fnArg.indicators)
            total == bullish + bearish
                     + 2 * Neutrals(fnArg.data, fnArg.indicators)
        IN  /\ \A i \in DOMAIN signals :
                  signals[i].signal = "neutral" =>
                      Same(signals[i].weight, Ratio(1, 10))
            /\ Twentieths(signals, {"bullish"}) = bullish
            /\ Twentieths(signals, {"bearish"}) = bearish
            /\ Twentieths(signals, {"bullish", "bearish", "neutral"}) = total
            /\ summary.trend = "bullish" <=> (total > 0 /\ 5 * bullish > 3 * total)
            /\ summary.trend = "bearish" <=> (total > 0 /\ 5 * bearish > 3 * total)
            /\ summary.trend = "bullish" =>
                  /\ Same(summary.confidence, Ratio(bullish, total))
                  /\ summary.strength = "strong" <=> 5 * bullish > 4 * total
            /\ summary.trend = "bearish" =>
                  /\ Same(summary.confidence, Ratio(bearish, total))
                  /\ summary.strength = "strong" <=> 5 * bearish > 4 * total

\* a summary has been made of a neutral SMA signal with a bullish RSI and a
\* bullish MACD signal: the bullish fraction is 0.45 / 0.55 = 9 / 11, above
\* 0.8, where a neutral weight of 0 would give 1 and one of 0.3 would give
\* 0.6 and a neutral trend
C39_Witness ==
    /\ Parsed
    /\ TrendKind(fnArg.data, fnArg.indicators) = "neutral"
    /\ MomentumKind(fnArg.indicators) = "bullish"
    /\ CrossingKind(fnArg.indicators) = "bullish"
    /\ fnRes.value.trend = "bullish"
    /\ fnRes.value.strength = "strong"
    /\ Same(fnRes.value.confidence, Ratio(9, 11))

============================================================================
